---- MODULE Spec2Model ----
(***************************************************************************)
(* Model of the Wikipedia traversal engine of msci-wiki-analytics:         *)
(* WikiRecursiveFetchService.traverse / _traverse_recursive, the           *)
(* RateLimiter gate, and the asyncio event loop the branches run on.       *)
(*                                                                         *)
(* Titles are sequences of one-character strings, so that title            *)
(* normalisation is computed character by character as the code does.      *)
(***************************************************************************)
EXTENDS Integers, Sequences, FiniteSets, TLC

VARIABLES
    world,          \* which link graph / page table the Wikipedia side serves
    depth0,         \* the depth argument of traverse(title, depth)
    max_concurrent, \* Settings.max_concurrent_requests (K) of this run
    tasks,          \* the _traverse_recursive coroutines, in creation order
    ready,          \* the event loop's FIFO queue of runnable task steps
    rl,             \* the RateLimiter of this traverse() call
    result,         \* the TraversalResult shared by all branches
    fetched,        \* history: the titles fetch_page was called with, in order
    status,         \* "running", "returned" or "raised": traverse() itself
    retry,          \* one get() of a page source client and its retry loop
    freq,           \* one WordFrequencyService.calculate call
    calls,          \* two traverse() calls running on one service and one loop
    api,            \* one HTTP request handled by the endpoints of main.py
    owners,         \* the page source clients, the service and their HTTP clients
    parser,         \* one raw page handed to a page parser of WikiRecursiveFetchService
    previous        \* what an earlier traverse() call with the same arguments returned

vars ==
    <<world, depth0, max_concurrent, tasks, ready, rl, result, fetched, status,
      retry, freq, calls, api, owners, parser, previous>>

\* the variables of one traverse() call
traversal == <<world, depth0, max_concurrent, tasks, ready, rl, result, fetched, status>>

\* the variables the single traversal leaves alone
notTraversal == <<retry, freq, calls, api, owners, parser, previous>>

\* the variables one retrying get() leaves alone
notRetry == <<traversal, freq, calls, api, owners, parser, previous>>

\* the variables one calculate call leaves alone
notFreq == <<traversal, retry, calls, api, owners, parser, previous>>

\* the variables the two concurrent traverse() calls leave alone
notCalls == <<traversal, retry, freq, api, owners, parser, previous>>

\* the variables one endpoint request leaves alone
notApi == <<retry, freq, calls, owners, parser, previous>>

\* the variables the client owners leave alone
notOwners == <<traversal, retry, freq, calls, api, parser, previous>>

\* the value of a variable whose part of the program is not running
Idle == [phase |-> "idle"]

(***************************************************************************)
(* Bounds of the model.                                                    *)
(***************************************************************************)
\* largest depth argument tried
MaxDepth == 3
\* largest max_concurrent_requests tried
MaxK == 2
\* RateLimiter._min_interval (1 / max_requests_per_second), in clock ticks
MinIntervalTicks == 1

(***************************************************************************)
(* Titles and title normalisation.                                         *)
(***************************************************************************)
A == <<"A">>
B == <<"B">>
C == <<"C">>
D == <<"D">>
E == <<"E">>
F == <<"F">>
X == <<"X">>
Y == <<"Y">>
UK == <<"U", "K">>
GB == <<"G", "B">>
\* spellings of A that differ in percent-encoding and underscores
A_enc == <<"%", "4", "1">>
A_us == <<"_", "A", "_">>
\* one title in two Unicode composition forms: U+00D1 (N with tilde,
\* precomposed) and N followed by U+0303 (combining tilde)
N_pre == <<"U+00D1">>
N_dec == <<"N", "U+0303">>

\* str.lower(), one character
LowerChar(c) ==
    CASE c = "A" -> "a" [] c = "B" -> "b" [] c = "C" -> "c" [] c = "D" -> "d"
      [] c = "E" -> "e" [] c = "F" -> "f" [] c = "G" -> "g" [] c = "K" -> "k"
      [] c = "U" -> "u" [] c = "X" -> "x" [] c = "Y" -> "y" [] c = "Z" -> "z"
      [] c = "N" -> "n" [] c = "U+00D1" -> "U+00F1"
      [] OTHER -> c

\* the percent-escapes of the characters titles are written with
HexChar(h, l) ==
    CASE h = "4" /\ l = "1" -> "A"
      [] h = "4" /\ l = "2" -> "B"
      [] h = "5" /\ l = "F" -> "_"
      [] h = "2" /\ l = "0" -> " "
      [] h = "2" /\ l = "5" -> "%"
      [] OTHER -> ""

\* urllib.parse.unquote: one left-to-right pass, a "%" that starts no
\* escape is kept
RECURSIVE unquote(_)
unquote(s) ==
    IF s = <<>> THEN <<>>
    ELSE IF s[1] = "%" /\ Len(s) >= 3 /\ HexChar(s[2], s[3]) # ""
         THEN <<HexChar(s[2], s[3])>> \o unquote(SubSeq(s, 4, Len(s)))
         ELSE <<s[1]>> \o unquote(Tail(s))

\* str.replace("_", " ")
replace_underscores(s) == [i \in 1..Len(s) |-> IF s[i] = "_" THEN " " ELSE s[i]]

\* str.strip()
RECURSIVE strip(_)
strip(s) ==
    IF s = <<>> THEN <<>>
    ELSE IF s[1] = " " THEN strip(Tail(s))
    ELSE IF s[Len(s)] = " " THEN strip(SubSeq(s, 1, Len(s) - 1))
    ELSE s

\* str.lower()
lower(s) == [i \in 1..Len(s) |-> LowerChar(s[i])]

\* WikiRecursiveFetchService._normalize_title
normalize_title(title) == lower(strip(replace_underscores(unquote(title))))

(***************************************************************************)
(* The Wikipedia side: the link graphs and page tables the runs are tried  *)
(* on, and the classes of answer one fetch can get.                        *)
(***************************************************************************)
\* cycle:    A <-> B, B also links back to A under other spellings
\* star:     A links to the leaves B, C, D
\* alias:    A links to X and Y; Y redirects to X and X's page names Y
\* diamond:  A -> B -> D -> F and A -> C -> E -> D (D lies on paths of unequal length)
\* redirect: the start title UK redirects to GB, whose page links to GB and A
\* unicode:  A links to N_pre, whose page links to itself in the spelling N_dec
Worlds == {"cycle", "star", "alias", "diamond", "redirect", "unicode"}

StartTitle(w) == IF w = "redirect" THEN UK ELSE A

\* PageContent.links of the page served for title t
Links(w, t) ==
    CASE w = "cycle" /\ t = A -> <<B>>
      [] w = "cycle" /\ t = B -> <<A, A_enc, A_us>>
      [] w = "star" /\ t = A -> <<B, C, D>>
      [] w = "alias" /\ t = A -> <<X, Y>>
      [] w = "diamond" /\ t = A -> <<B, C>>
      [] w = "diamond" /\ t = B -> <<D>>
      [] w = "diamond" /\ t = C -> <<E>>
      [] w = "diamond" /\ t = E -> <<D>>
      [] w = "diamond" /\ t = D -> <<F>>
      [] w = "redirect" /\ t = UK -> <<GB, A>>
      [] w = "redirect" /\ t = GB -> <<GB, A>>
      [] w = "redirect" /\ t = A -> <<UK>>
      [] w = "unicode" /\ t = A -> <<N_pre>>
      [] w = "unicode" /\ t \in {N_pre, N_dec} -> <<N_dec>>
      [] OTHER -> <<>>

\* PageContent.title: the resolved title the response itself reports
Canon(w, t) ==
    CASE w = "alias" /\ t = Y -> X
      [] w = "redirect" /\ t = UK -> GB
      [] w = "unicode" /\ t = N_dec -> N_pre
      [] OTHER -> t

\* PageContent.redirects
Redirects(w, t) ==
    CASE w = "alias" /\ t \in {X, Y} -> <<Y>>
      [] w = "redirect" /\ t = UK -> <<UK>>
      [] OTHER -> <<>>

\* PageContent
PageContent(w, t) ==
    [title |-> Canon(w, t), text |-> Canon(w, t),
     links |-> Links(w, t), redirects |-> Redirects(w, t)]

\* What one call of the API client and the body it returns can be:
\*   ok          a well-formed parse response
\*   missing     a JSON body with an "error" member
\*   bad_json    a body that is not JSON
\*   bad_link    a link entry without its "*" member
\*   bad_shape   valid JSON of another shape ("text" not an object)
\*   recoverable RecoverableAPIError once the client's retries are used up
\*   http_error  WikipediaAPIError (a 4xx status)
Responses ==
    {"ok", "missing", "bad_json", "bad_link", "bad_shape", "recoverable", "http_error"}

\* the answers tried for title t in world w
ResponsesFor(w, t) ==
    CASE w = "cycle" -> Responses
      [] w = "star" /\ t = A -> {"ok"}
      [] w = "star" -> {"ok", "missing", "http_error", "recoverable"}
      [] w = "alias" -> {"ok", "http_error"}
      [] w = "diamond" -> {"ok"}
      [] w = "unicode" -> {"ok"}
      [] OTHER -> {"ok", "missing", "bad_json"}

(***************************************************************************)
(* Exceptions (src/exceptions.py) and fetch_page.                          *)
(***************************************************************************)
\* the base class of each exception class
BaseClass(cls) ==
    CASE cls = "RecoverableAPIError" -> "WikipediaAPIError"
      [] cls = "WikipediaAPIError" -> "WikipediaFetchError"
      [] cls = "WikipediaParseError" -> "WikipediaFetchError"
      [] cls = "WikipediaFetchError" -> "WikiAnalyticsError"
      [] cls = "WikiAnalyticsError" -> "Exception"
      [] OTHER -> "Exception"

\* isinstance(exc, cls)
RECURSIVE isinstance(_, _)
isinstance(exc, cls) ==
    IF exc = cls THEN TRUE
    ELSE IF exc = "Exception" THEN FALSE
    ELSE isinstance(BaseClass(exc), cls)

\* a fetch that hands back a page whatever the answer
fetch_page_AlwaysPage(w, t, resp) == [kind |-> "page", exc |-> ""]

\* WikiRecursiveFetchService._fetch_page_api
fetch_page(w, t, resp) ==
    CASE resp = "recoverable" -> [kind |-> "raise", exc |-> "RecoverableAPIError"]
      [] resp = "http_error" -> [kind |-> "raise", exc |-> "WikipediaAPIError"]
      [] resp = "bad_json" -> [kind |-> "raise", exc |-> "WikipediaParseError"]
      [] resp = "missing" -> [kind |-> "none", exc |-> ""]
      [] resp = "bad_shape" -> [kind |-> "raise", exc |-> "AttributeError"]
      [] resp = "bad_link" -> [kind |-> "raise", exc |-> "WikipediaParseError"]
      [] OTHER -> [kind |-> "page", exc |-> ""]

\* an except clause that names too narrow a class
caught_OnlyRecoverable(exc) == isinstance(exc, "RecoverableAPIError")

\* the except clause of _traverse_recursive: except WikipediaFetchError
caught(exc) == isinstance(exc, "WikipediaFetchError")

(***************************************************************************)
(* RateLimiter: an asyncio.Semaphore (value, FIFO waiters), an             *)
(* asyncio.Lock (locked, FIFO waiters) and the time since                  *)
(* _last_request_time, counted in ticks and saturating at _min_interval.   *)
(* A gate step yields the new gate, where the branch stands and the tasks  *)
(* it made runnable.                                                       *)
(***************************************************************************)
\* RateLimiter.__init__
NewRateLimiter(k) ==
    [value |-> k, semQ |-> <<>>, semWoken |-> {},
     locked |-> FALSE, lockQ |-> <<>>,
     sinceLast |-> MinIntervalTicks, sleepLeft |-> 0, sleeper |-> 0]

Remove(q, t) == SelectSeq(q, LAMBDA i : i # t)

\* a semaphore that admits everybody
SemFree_Always(g) == TRUE

\* not Semaphore.locked(): a slot is free and nobody queues for one
SemFree(g) == g.value > 0 /\ g.semQ = <<>>

\* Lock.acquire's fast path: unlocked and nobody queues
LockFree(g) == ~g.locked /\ g.lockQ = <<>>

\* Semaphore._wake_up_next: hand a slot to the first waiter not yet woken
WakeUpNext(g) ==
    LET waiting == SelectSeq(g.semQ, LAMBDA i : i \notin g.semWoken)
    IN IF waiting = <<>> THEN [g |-> g, wake |-> <<>>]
       ELSE [g |-> [g EXCEPT !.value = @ - 1, !.semWoken = @ \cup {Head(waiting)}],
             wake |-> <<Head(waiting)>>]

\* the loop "while self._value > 0: self._wake_up_next()" of a woken waiter
RECURSIVE WakeWhileFree(_)
WakeWhileFree(g) ==
    LET w == WakeUpNext(g)
    IN IF g.value > 0 /\ w.wake # <<>>
       THEN LET r == WakeWhileFree(w.g) IN [g |-> r.g, wake |-> w.wake \o r.wake]
       ELSE [g |-> g, wake |-> <<>>]

\* a release that frees the slot and wakes nobody
release_NoWake(g) == [g |-> [g EXCEPT !.value = @ + 1], wake |-> <<>>]

\* a release that hands the slot back twice
release_Twice(g) == WakeUpNext([g EXCEPT !.value = @ + 2])

\* RateLimiter.release: Semaphore.release
release(g) == WakeUpNext([g EXCEPT !.value = @ + 1])

\* acquire, line 37 and the exit of "async with self._lock": record the
\* start time, release the lock and wake the first lock waiter
Admit(g, t) ==
    [g |-> [g EXCEPT !.sinceLast = 0, !.locked = FALSE, !.sleeper = 0, !.sleepLeft = 0],
     pc |-> "fetching",
     wake |-> IF g.lockQ # <<>> THEN <<Head(g.lockQ)>> ELSE <<>>]

\* an acquire that never sleeps
Throttle_NoSleep(g, t) == Admit(g, t)

\* acquire, lines 33-36, with the lock held: sleep out the shortfall
Throttle(g, t) ==
    IF g.sinceLast < MinIntervalTicks
    THEN [g |-> [g EXCEPT !.sleepLeft = MinIntervalTicks - g.sinceLast, !.sleeper = t],
          pc |-> "sleeping", wake |-> <<>>]
    ELSE Admit(g, t)

\* acquire, line 32, holding a slot: take the lock or queue for it
EnterLock(g, t) ==
    IF LockFree(g)
    THEN Throttle([g EXCEPT !.locked = TRUE], t)
    ELSE [g |-> [g EXCEPT !.lockQ = Append(@, t)], pc |-> "lockwait", wake |-> <<>>]

\* RateLimiter.acquire from its first line: take a slot or queue for one
acquire(g, t) ==
    IF SemFree(g)
    THEN EnterLock([g EXCEPT !.value = @ - 1], t)
    ELSE [g |-> [g EXCEPT !.semQ = Append(@, t)], pc |-> "semwait", wake |-> <<>>]

(***************************************************************************)
(* Branches of _traverse_recursive.                                        *)
(***************************************************************************)
\* pc: new, semwait, lockwait, sleeping, fetching, gather, gathered, done
\* outcome: "", Skipped, Fetched, NotFound, Failed, Raised
NewTask(title, depth, parent) ==
    [title |-> title, depth |-> depth, parent |-> parent, pc |-> "new",
     pending |-> 0, exc |-> FALSE, resp |-> "", outcome |-> ""]

\* a visited check that never finds anything
already_visited_Never(n, visited) == FALSE

\* line 379: normalized_title in result.visited
already_visited(n, visited) == n \in visited

\* a mark that is forgotten
mark_visited_Skip(visited, n) == visited


\* a mark that replaces the set instead of adding to it
mark_visited_Only(visited, n) == {n}

\* line 382: result.visited.add(normalized_title)
mark_visited(visited, n) == visited \cup {n}

\* links followed whatever the remaining depth
expand_links_Always(depth, links) == links

\* lines 405-409: the links the branch fans out over
expand_links(depth, links) == IF depth <= 0 THEN <<>> ELSE links

\* The branch t returns (or raises): the done-callback of the gather its
\* parent waits in, or the end of traverse() for the root.
Finish(ts, t, outcome, raised) ==
    LET p == ts[t].parent
        ts1 == [ts EXCEPT ![t].pc = "done", ![t].outcome = outcome]
    IN IF p = 0
       THEN [tasks |-> ts1, wake |-> <<>>,
             status |-> IF raised THEN "raised" ELSE "returned"]
       ELSE IF ts1[p].pc # "gather"
       THEN [tasks |-> [ts1 EXCEPT ![p].pending = @ - 1], wake |-> <<>>, status |-> ""]
       ELSE IF raised
       THEN [tasks |-> [ts1 EXCEPT ![p].pending = @ - 1, ![p].pc = "gathered",
                                   ![p].exc = TRUE],
             wake |-> <<p>>, status |-> ""]
       ELSE IF ts1[p].pending = 1
       THEN [tasks |-> [ts1 EXCEPT ![p].pending = 0, ![p].pc = "gathered"],
             wake |-> <<p>>, status |-> ""]
       ELSE [tasks |-> [ts1 EXCEPT ![p].pending = @ - 1], wake |-> <<>>, status |-> ""]

NewStatus(f) == IF f.status = "" THEN status ELSE f.status

(***************************************************************************)
(* Init: traverse(title, depth) has built its TraversalResult and          *)
(* RateLimiter and is about to run the root branch.                        *)
(***************************************************************************)
Init ==
    /\ world \in Worlds
    /\ depth0 \in 0..MaxDepth
    /\ max_concurrent \in 1..MaxK
    /\ tasks = <<NewTask(StartTitle(world), depth0, 0)>>
    /\ ready = <<1>>
    /\ rl = NewRateLimiter(max_concurrent)
    /\ result = [texts |-> <<>>, visited |-> {}, errors |-> <<>>]
    /\ fetched = <<>>
    /\ status = "running"
    /\ retry = Idle /\ freq = Idle /\ calls = Idle /\ api = Idle /\ owners = Idle
    /\ parser = Idle /\ previous = Idle

\* what a gate step leaves behind for branch t
AfterGate(t, r, rest) ==
    /\ rl' = r.g
    /\ tasks' = [tasks EXCEPT ![t].pc = r.pc]
    /\ ready' = rest \o r.wake
    /\ fetched' = IF r.pc = "fetching" THEN Append(fetched, tasks[t].title) ELSE fetched

\* lines 377-384: the first step of a branch, up to its first suspension
Start ==
    /\ ready # <<>>
    /\ LET t == Head(ready)
           n == normalize_title(tasks[t].title)
       IN /\ tasks[t].pc = "new"
          /\ IF already_visited(n, result.visited)
             THEN LET f == Finish(tasks, t, "Skipped", FALSE)
                  IN /\ tasks' = f.tasks
                     /\ ready' = Tail(ready) \o f.wake
                     /\ status' = NewStatus(f)
                     /\ UNCHANGED <<rl, result, fetched>>
             ELSE /\ result' = [result EXCEPT !.visited = mark_visited(@, n)]
                  /\ AfterGate(t, acquire(rl, t), Tail(ready))
                  /\ UNCHANGED status
    /\ UNCHANGED <<world, depth0, max_concurrent>>
    /\ UNCHANGED notTraversal

\* Semaphore.acquire resumes: the waiter leaves the queue with its slot
WakeSem ==
    /\ ready # <<>>
    /\ LET t == Head(ready)
           g1 == [rl EXCEPT !.semQ = Remove(@, t), !.semWoken = @ \ {t}]
           w == WakeWhileFree(g1)
           r == EnterLock(w.g, t)
       IN /\ tasks[t].pc = "semwait"
          /\ AfterGate(t, [r EXCEPT !.wake = w.wake \o @], Tail(ready))
    /\ UNCHANGED <<world, depth0, max_concurrent, result, status>>
    /\ UNCHANGED notTraversal

\* Lock.acquire resumes: the waiter leaves the queue and holds the lock
WakeLock ==
    /\ ready # <<>>
    /\ LET t == Head(ready)
           g1 == [rl EXCEPT !.lockQ = Remove(@, t), !.locked = TRUE]
       IN /\ tasks[t].pc = "lockwait"
          /\ AfterGate(t, Throttle(g1, t), Tail(ready))
    /\ UNCHANGED <<world, depth0, max_concurrent, result, status>>
    /\ UNCHANGED notTraversal

\* asyncio.sleep returns: line 37 and the release of the lock
WakeSleep ==
    /\ ready # <<>>
    /\ LET t == Head(ready)
       IN /\ tasks[t].pc = "sleeping"
          /\ AfterGate(t, Admit(rl, t), Tail(ready))
    /\ UNCHANGED <<world, depth0, max_concurrent, result, status>>
    /\ UNCHANGED notTraversal

\* the resolved title and the aliases left out
PageKeys_None(page) == {}

\* lines 397-401: the resolved title and every redirect alias, normalised
PageKeys(page) ==
    {normalize_title(page.title)}
        \cup {normalize_title(page.redirects[i]) : i \in 1..Len(page.redirects)}

\* lines 385-414: fetch_page has answered; the slot is released, the outcome
\* recorded, and the links fanned out over with asyncio.gather
FetchDone ==
    /\ ready # <<>>
    /\ LET t == Head(ready)
           tk == tasks[t]
           out == fetch_page(world, tk.title, tk.resp)
           page == PageContent(world, tk.title)
           rel == release(rl)
           kids == expand_links(tk.depth, page.links)
           n == Len(tasks)
       IN /\ tk.pc = "fetching"
          /\ tk.resp # ""
          /\ rl' = rel.g
          /\ IF out.kind = "page" /\ kids # <<>>
             THEN /\ result' = [result EXCEPT !.visited = @ \cup PageKeys(page),
                                              !.texts = Append(@, page.text)]
                  /\ tasks' = [tasks EXCEPT ![t].pc = "gather", ![t].outcome = "Fetched",
                                            ![t].pending = Len(kids)]
                                \o [i \in 1..Len(kids) |-> NewTask(kids[i], tk.depth - 1, t)]
                  /\ ready' = Tail(ready) \o rel.wake \o [i \in 1..Len(kids) |-> n + i]
                  /\ UNCHANGED status
             ELSE LET f == Finish(tasks, t,
                                  CASE out.kind = "page" -> "Fetched"
                                    [] out.kind = "none" -> "NotFound"
                                    [] out.kind = "raise" /\ caught(out.exc) -> "Failed"
                                    [] OTHER -> "Raised",
                                  out.kind = "raise" /\ ~caught(out.exc))
                  IN /\ result' =
                          CASE out.kind = "page" ->
                                 [result EXCEPT !.visited = @ \cup PageKeys(page),
                                                !.texts = Append(@, page.text)]
                            [] out.kind = "raise" /\ caught(out.exc) ->
                                 [result EXCEPT !.errors =
                                     Append(@, [title |-> tk.title, error |-> out.exc])]
                            [] OTHER -> result
                     /\ tasks' = f.tasks
                     /\ ready' = Tail(ready) \o rel.wake \o f.wake
                     /\ status' = NewStatus(f)
    /\ UNCHANGED <<world, depth0, max_concurrent, fetched>>
    /\ UNCHANGED notTraversal

\* line 414: asyncio.gather has resolved (all children done, or one raised);
\* the branch returns, or re-raises the child's exception
GatherDone ==
    /\ ready # <<>>
    /\ LET t == Head(ready)
           f == Finish(tasks, t, tasks[t].outcome, tasks[t].exc)
       IN /\ tasks[t].pc = "gathered"
          /\ tasks' = f.tasks
          /\ ready' = Tail(ready) \o f.wake
          /\ status' = NewStatus(f)
    /\ UNCHANGED <<world, depth0, max_concurrent, rl, result, fetched>>
    /\ UNCHANGED notTraversal

\* the network answers one fetch in flight (client retries included)
IOComplete ==
    \E t \in 1..Len(tasks) :
        \E resp \in ResponsesFor(world, tasks[t].title) :
            /\ tasks[t].pc = "fetching"
            /\ tasks[t].resp = ""
            /\ tasks' = [tasks EXCEPT ![t].resp = resp]
            /\ ready' = Append(ready, t)
            /\ UNCHANGED <<world, depth0, max_concurrent, rl, result, fetched, status>>
            /\ UNCHANGED notTraversal

\* time.monotonic() advances by one tick; a sleep that has run out makes
\* its branch runnable
Tick ==
    /\ rl.sinceLast < MinIntervalTicks \/ rl.sleepLeft > 0
    /\ rl' = [rl EXCEPT !.sinceLast = IF @ < MinIntervalTicks THEN @ + 1 ELSE @,
                        !.sleepLeft = IF @ > 0 THEN @ - 1 ELSE @]
    /\ ready' = IF rl.sleepLeft = 1 THEN Append(ready, rl.sleeper) ELSE ready
    /\ UNCHANGED <<world, depth0, max_concurrent, tasks, result, fetched, status>>
    /\ UNCHANGED notTraversal

Next ==
    \/ Start
    \/ WakeSem
    \/ WakeLock
    \/ WakeSleep
    \/ FetchDone
    \/ GatherDone
    \/ IOComplete
    \/ Tick

Spec == Init /\ [][Next]_vars

\* the event loop runs what is runnable, time passes, and every fetch in
\* flight is eventually answered
Fairness ==
    /\ WF_vars(Start \/ WakeSem \/ WakeLock \/ WakeSleep \/ FetchDone \/ GatherDone)
    /\ WF_vars(IOComplete)
    /\ WF_vars(Tick)

LiveSpec == Spec /\ Fairness

(***************************************************************************)
(* Vocabulary of the properties.                                           *)
(***************************************************************************)
TaskIds == 1..Len(tasks)

Range(q) == {q[i] : i \in 1..Len(q)}

\* the deduplication key of branch t
Key(t) == normalize_title(tasks[t].title)

\* branch t passed the visited check (it was dispatched for fetching)
Dispatched(t) == tasks[t].pc # "new" /\ tasks[t].outcome # "Skipped"

\* branch t waits for the gate
AtGate(t) == tasks[t].pc \in {"semwait", "lockwait", "sleeping"}

\* branch t holds a concurrency slot: acquired, or handed over by release,
\* and not yet released
HoldsSlot(t) == tasks[t].pc \in {"lockwait", "sleeping", "fetching"} \/ t \in rl.semWoken

AllDone == \A t \in TaskIds : tasks[t].pc = "done"

WithOutcome(o) == {t \in TaskIds : tasks[t].outcome = o}

\* the children the root fanned out over
Children == {t \in TaskIds : tasks[t].parent = 1}

\* the titles at most d links away from the start title
RECURSIVE Within(_, _)
Within(w, d) ==
    IF d = 0 THEN {StartTitle(w)}
    ELSE LET near == Within(w, d - 1)
         IN near \cup UNION {Range(Links(w, t)) : t \in near}

\* the answer resp makes fetch_page raise
ErrorResponse(resp) == fetch_page(world, A, resp).kind = "raise"

(***************************************************************************)
(* C1. Any error of one node's fetch-or-parse step, whatever its kind, is  *)
(* caught inside the traversal and becomes exactly one TraversalError      *)
(* entry; it never propagates out of traverse().                           *)
(***************************************************************************)
C1_NoErrorPropagates ==
    /\ status # "raised"
    /\ \A t \in TaskIds :
         tasks[t].pc = "done" /\ tasks[t].resp # "" /\ ErrorResponse(tasks[t].resp)
           => Cardinality({i \in 1..Len(result.errors) :
                              result.errors[i].title = tasks[t].title}) = 1

(***************************************************************************)
(* C2. Within one traverse() call fetch_page is called at most once per    *)
(* normalized title: no two branches both pass the visited check for the   *)
(* same normalized title, cyclic link graphs included.                     *)
(***************************************************************************)
C2_FetchOncePerKey ==
    /\ \A i, j \in 1..Len(fetched) :
         i # j => normalize_title(fetched[i]) # normalize_title(fetched[j])
    /\ \A t, u \in TaskIds :
         t # u /\ Dispatched(t) /\ Dispatched(u) => Key(t) # Key(u)

\* the cycle A <-> B at depth 2 has returned: two fetches, and the links
\* back to A (in three spellings) were all turned away
C2_Witness ==
    /\ world = "cycle" /\ depth0 = 2 /\ status = "returned"
    /\ Len(fetched) = 2
    /\ Cardinality({t \in WithOutcome("Skipped") : Key(t) = normalize_title(A)}) = 3

(***************************************************************************)
(* C3. The normalized title of every branch is in visited from the moment  *)
(* the branch starts waiting on the gate, and when its fetch begins.       *)
(***************************************************************************)
C3_MarkedBeforeGateAndFetch ==
    /\ \A t \in TaskIds :
         AtGate(t) \/ tasks[t].pc = "fetching" => Key(t) \in result.visited
    /\ \A i \in 1..Len(fetched) : normalize_title(fetched[i]) \in result.visited

\* one branch queues for a slot while another one's fetch is in flight
C3_Witness ==
    \E t, u \in TaskIds :
        /\ tasks[t].pc = "semwait"
        /\ tasks[u].pc = "fetching" /\ tasks[u].resp = ""
        /\ {Key(t), Key(u)} \subseteq result.visited

\* the traversal is over: every branch is done and the gate is idle
C4_Terminated ==
    /\ AllDone
    /\ status \in {"returned", "raised"}
    /\ status = "raised" => WithOutcome("Raised") # {}
    /\ \A t \in TaskIds : tasks[t].outcome # "Skipped" => tasks[t].resp # ""
    /\ ready = <<>> /\ rl.semQ = <<>> /\ rl.lockQ = <<>>
    /\ rl.value = max_concurrent

C5_DepthZeroOneEntry ==
    depth0 = 0 /\ status = "returned"
        => Len(fetched) = 1 /\ Cardinality(result.visited) = 1

\* the keys a depth-0 traversal leaves in visited: the start title's and,
\* once the page was fetched, its resolved title's and its aliases'
DepthZeroKeys ==
    {normalize_title(StartTitle(world))}
        \cup (IF tasks[1].outcome = "Fetched"
              THEN PageKeys(PageContent(world, StartTitle(world)))
              ELSE {})

(* C5, amended: traverse(title, 0) makes exactly one fetch_page call,      *)
(* however many links the page has, and the returned visited set holds     *)
(* the normalized start title plus, when a page was fetched, its           *)
(* normalized resolved title and redirect aliases: exactly one entry when  *)
(* these all normalize to the start title.                                 *)
C5_DepthZero ==
    depth0 = 0 =>
        /\ Len(fetched) <= 1
        /\ Len(tasks) = 1
        /\ status # "running" =>
             /\ fetched = <<StartTitle(world)>>
             /\ result.visited = DepthZeroKeys
             /\ (tasks[1].outcome = "Fetched"
                   /\ PageKeys(PageContent(world, StartTitle(world)))
                        = {normalize_title(StartTitle(world))})
                  => Cardinality(result.visited) = 1

\* the star's start page, with its three links, fetched at depth 0
C5_Witness ==
    /\ depth0 = 0 /\ world = "star" /\ status = "returned"
    /\ Len(Links(world, StartTitle(world))) = 3
    /\ Len(fetched) = 1 /\ Len(result.texts) = 1
    /\ Cardinality(result.visited) = 1

(***************************************************************************)
(* C6. In every reachable state the normalized title of every node with an *)
(* entry in errors, and of every node that contributed a text, is in       *)
(* visited. visited is a set of normalized keys (the type of the variable  *)
(* gives "at most once"): each member is the normalized form of a          *)
(* dispatched title or of a title or alias a fetched page reported.        *)
(***************************************************************************)
C6_ErrorsAndTextsVisited ==
    /\ \A i \in 1..Len(result.errors) :
         normalize_title(result.errors[i].title) \in result.visited
    /\ \A t \in WithOutcome("Fetched") :
         /\ Key(t) \in result.visited
         /\ normalize_title(PageContent(world, tasks[t].title).title) \in result.visited
    /\ Len(result.texts) = Cardinality(WithOutcome("Fetched"))
    /\ result.visited \subseteq
         {Key(t) : t \in {u \in TaskIds : Dispatched(u)}}
            \cup UNION {PageKeys(PageContent(world, tasks[t].title)) :
                           t \in WithOutcome("Fetched")}

\* a traversal that has recorded both a text and an error
C6_Witness ==
    /\ Len(result.errors) >= 1 /\ Len(result.texts) >= 1
    /\ WithOutcome("Failed") # {} /\ WithOutcome("Fetched") # {}

(***************************************************************************)
(* C7. If the page fetched for link X declares "Y" as a redirect alias, a  *)
(* sibling link literally titled "Y" that comes later in the same parent's *)
(* link list is not fetched.                                               *)
(***************************************************************************)
C7_LaterAliasSiblingNotFetched ==
    \A t, u \in TaskIds :
        /\ tasks[t].parent = tasks[u].parent /\ t < u
        /\ tasks[t].outcome = "Fetched"
        /\ tasks[u].title \in Range(PageContent(world, tasks[t].title).redirects)
        => tasks[u].title \notin Range(fetched)

\* the root's children whose fetch was answered with one of resps
ChildrenWith(resps) == {t \in Children : tasks[t].resp \in resps}

C9_DepthComplete ==
    /\ world \in {"star", "diamond"}
    /\ status = "returned"
    /\ \A t \in TaskIds : tasks[t].resp \in {"", "ok"}
    => \A title \in Within(world, depth0) :
           /\ title \in Range(fetched)
           /\ PageContent(world, title).text \in Range(result.texts)

(***************************************************************************)
(* C10. The branches admitted by the gate and not yet released (fetches    *)
(* in flight, retries included) never number more than max_concurrent,     *)
(* over the whole traversal; nor do the slots held.                        *)
(***************************************************************************)
C10_AtMostKInFlight ==
    /\ Cardinality({t \in TaskIds : tasks[t].pc = "fetching"}) <= max_concurrent
    /\ Cardinality({t \in TaskIds : HoldsSlot(t)}) <= max_concurrent
    /\ rl.value >= 0

\* both slots are taken by fetches in flight and a third branch is kept out
C10_Witness ==
    /\ max_concurrent = 2
    /\ Cardinality({t \in TaskIds : tasks[t].pc = "fetching" /\ tasks[t].resp = ""}) = 2
    /\ \E t \in TaskIds : tasks[t].pc = "semwait"

\* the branches holding a concurrency slot
SlotHolders == {t \in TaskIds : HoldsSlot(t)}

\* the branches whose parent is branch p
ChildrenOf(p) == {t \in TaskIds : tasks[t].parent = p}

(***************************************************************************)
(* C11. Any two consecutive gate admissions (fetch starts) of one          *)
(* traversal are at least the minimum interval apart under every           *)
(* interleaving: the last-start time is read and written only by the       *)
(* holder of the gate's mutex, and the mutex is held across the shortfall  *)
(* sleep.                                                                  *)
(***************************************************************************)
C11_MinIntervalBetweenStarts ==
    /\ [](\A t \in TaskIds :
             tasks[t].pc = "sleeping"
               => rl.locked /\ rl.sleeper = t /\ t \notin Range(rl.lockQ))
    /\ [][Len(fetched') > Len(fetched)
            => /\ Len(fetched') = Len(fetched) + 1
               /\ rl.sinceLast >= MinIntervalTicks
               /\ rl'.sinceLast = 0
               /\ \A t \in TaskIds : tasks[t].pc = "sleeping" => tasks'[t].pc = "fetching"]_vars

\* a branch sleeps out the shortfall after two starts, holding the mutex,
\* while another branch queues for the mutex
C11_Witness ==
    /\ Len(fetched) >= 2
    /\ rl.sinceLast < MinIntervalTicks
    /\ rl.locked /\ rl.lockQ # <<>>
    /\ \E t \in TaskIds : tasks[t].pc = "sleeping" /\ rl.sleeper = t

(***************************************************************************)
(* C12. Every branch that acquires the gate releases its concurrency slot  *)
(* exactly once, whether its fetch returns a page, returns None or raises, *)
(* and holds it for the whole fetch: the free slots and the held slots     *)
(* always add up to max_concurrent, the free slots never exceed it, and    *)
(* when traverse returns all slots are free.                               *)
(***************************************************************************)
C12_SlotReleasedOnce ==
    /\ rl.value + Cardinality(SlotHolders) = max_concurrent
    /\ rl.value <= max_concurrent
    /\ \A t \in TaskIds : tasks[t].pc = "fetching" => HoldsSlot(t)
    /\ \A t \in TaskIds : tasks[t].pc \in {"gather", "gathered", "done"} => ~HoldsSlot(t)
    /\ status = "returned" => rl.value = max_concurrent /\ SlotHolders = {}

\* traverse has returned after fetches that gave a page, None and an error,
\* and every slot is free again
C12_Witness ==
    /\ status = "returned"
    /\ WithOutcome("Fetched") # {} /\ WithOutcome("NotFound") # {}
    /\ WithOutcome("Failed") # {}
    /\ rl.value = max_concurrent

(***************************************************************************)
(* C13. Every branch other than the root exists only after the fetch of    *)
(* the parent that listed its title as a link has completed with a page;   *)
(* no branch has children while its own fetch is still to come or in       *)
(* flight.                                                                 *)
(***************************************************************************)
C13_ChildAfterParentFetch ==
    /\ \A t \in TaskIds :
         tasks[t].parent # 0 =>
           LET p == tasks[t].parent
           IN /\ tasks[p].pc \in {"gather", "gathered", "done"}
              /\ tasks[p].outcome = "Fetched"
              /\ tasks[p].resp = "ok"
              /\ tasks[p].title \in Range(fetched)
              /\ tasks[t].title \in Range(PageContent(world, tasks[p].title).links)
    /\ \A p \in TaskIds :
         tasks[p].pc \in {"new", "semwait", "lockwait", "sleeping", "fetching"}
           => ChildrenOf(p) = {}

\* a child's fetch is in flight while its parent waits in gather, and
\* another branch whose fetch is in flight has no children yet
C13_Witness ==
    \E t, u \in TaskIds :
        /\ t # u
        /\ tasks[t].parent # 0 /\ tasks[t].pc = "fetching"
        /\ tasks[tasks[t].parent].pc = "gather"
        /\ tasks[u].pc = "fetching" /\ tasks[u].resp = "" /\ ChildrenOf(u) = {}


\* the state of the node branch t stands for (spec 5): a branch turned away by
\* the visited check never becomes a dispatched node
NodeState(ts, t) ==
    CASE ts[t].pc = "new" -> "Unvisited"
      [] ts[t].outcome = "" -> "Dispatched"
      [] OTHER -> ts[t].outcome

TerminalStates == {"Fetched", "NotFound", "Failed"}

\* every node is in a state of the node state machine
C29_States ==
    \A t \in TaskIds :
        NodeState(tasks, t) \in {"Unvisited", "Skipped", "Dispatched"} \cup TerminalStates

\* one step moves a node along Unvisited -> Dispatched -> terminal, or leaves it
C29_Step ==
    \A t \in TaskIds :
        LET before == NodeState(tasks, t)
            after == NodeState(tasks', t)
        IN \/ after = before
           \/ before = "Unvisited" /\ after \in {"Dispatched", "Skipped"}
           \/ before = "Dispatched" /\ after \in TerminalStates

\* the result traverse() returns, counted against the nodes
C29_AtReturn ==
    status = "returned" =>
        /\ \A t \in TaskIds : NodeState(tasks, t) \in TerminalStates \cup {"Skipped"}
        /\ Len(result.texts) = Cardinality(WithOutcome("Fetched"))
        /\ Len(result.errors) = Cardinality(WithOutcome("Failed"))
        /\ \A t \in WithOutcome("Fetched") :
             \A i \in 1..Len(result.errors) : result.errors[i].title # tasks[t].title
        /\ \A t \in WithOutcome("Failed") \cup WithOutcome("NotFound") : ChildrenOf(t) = {}

(***************************************************************************)
(* C29. Every dispatched node goes Unvisited -> Dispatched -> exactly one  *)
(* of Fetched, NotFound, Failed and stays there; when traverse returns,    *)
(* len(texts) is the number of Fetched nodes, len(errors) the number of    *)
(* Failed nodes, no node gave both a text and an error, and no Failed or   *)
(* NotFound node had a link expanded.                                      *)
(***************************************************************************)
C29_NodeStateMachine == []C29_States /\ [][C29_Step]_vars /\ []C29_AtReturn

(***************************************************************************)
(* C30. A fetch that yields NotFound (the article does not exist) leaves   *)
(* texts and errors unchanged, adds nothing to visited beyond the marker   *)
(* set before the fetch, and dispatches no child; when traverse returns,   *)
(* every sibling of a NotFound node has been visited (fetched, or turned   *)
(* away as a duplicate) and the existing siblings' texts are in the result.*)
(***************************************************************************)
C30_NotFoundStep ==
    \A t \in TaskIds :
        tasks[t].pc = "fetching" /\ tasks[t].resp = "missing" /\ tasks'[t].pc # "fetching"
          => /\ result' = result
             /\ Key(t) \in result.visited
             /\ Len(tasks') = Len(tasks)
             /\ tasks'[t].pc = "done" /\ tasks'[t].outcome = "NotFound"

C30_SiblingsVisited ==
    status = "returned" =>
        \A t, u \in TaskIds :
            tasks[t].resp = "missing" /\ tasks[u].parent = tasks[t].parent =>
                /\ tasks[u].outcome # ""
                /\ Key(u) \in result.visited
                /\ tasks[u].resp = "ok" =>
                     PageContent(world, tasks[u].title).text \in Range(result.texts)

C30_NotFoundFrame == [][C30_NotFoundStep]_vars /\ []C30_SiblingsVisited

\* star at depth 1 has returned: B does not exist, its siblings C and D were
\* fetched, and the result holds the three texts of A, C and D and no error
C30_Witness ==
    /\ status = "returned"
    /\ result.errors = <<>>
    /\ \E t, u, v \in Children :
         /\ Cardinality({t, u, v}) = 3
         /\ tasks[t].outcome = "NotFound" /\ ChildrenOf(t) = {}
         /\ tasks[u].outcome = "Fetched" /\ tasks[v].outcome = "Fetched"
    /\ Len(result.texts) = 3


\* sets of titles that differ only in letter case, underscore versus space,
\* percent-encoding or Unicode composition form
SpellingClasses == {{A, A_enc, A_us, <<"a">>, <<"%", "4", "1", "_">>}, {N_pre, N_dec}}

(***************************************************************************)
(* C27. Titles that differ only in letter case, underscore versus space,   *)
(* percent-encoding or Unicode composition form have the same normalized   *)
(* title, and a traversal fetches at most one of them.                     *)
(***************************************************************************)
C27_SpellingsShareKey ==
    \A class \in SpellingClasses :
        /\ \A s, t \in class : normalize_title(s) = normalize_title(t)
        /\ Cardinality({i \in 1..Len(fetched) : fetched[i] \in class}) <= 1


\* the number of links followed from the start title down to branch t
RECURSIVE Hops(_)
Hops(t) == IF tasks[t].parent = 0 THEN 0 ELSE 1 + Hops(tasks[t].parent)

(***************************************************************************)
(* C31. Depth bound: every branch of traverse(start, d) is reached from    *)
(* start by a chain of at most d followed links; a child gets its parent's *)
(* remaining depth minus 1, never a negative one; a node visited with      *)
(* remaining depth <= 0 never has its links dispatched.                    *)
(***************************************************************************)
C31_DepthBound ==
    \A t \in TaskIds :
        /\ tasks[t].depth >= 0
        /\ Hops(t) <= depth0
        /\ tasks[t].depth = depth0 - Hops(t)
        /\ IF tasks[t].parent = 0
           THEN tasks[t].title = StartTitle(world)
           ELSE /\ tasks[t].depth = tasks[tasks[t].parent].depth - 1
                /\ tasks[t].title \in
                     Range(PageContent(world, tasks[tasks[t].parent].title).links)
        /\ tasks[t].depth <= 0 => ChildrenOf(t) = {}

\* a page with links was fetched d >= 2 hops from the start with remaining
\* depth 0, and the traversal returned without dispatching any of its links
C31_Witness ==
    /\ status = "returned"
    /\ depth0 >= 2
    /\ \E t \in TaskIds :
         /\ Hops(t) = depth0 /\ tasks[t].depth = 0
         /\ tasks[t].outcome = "Fetched"
         /\ PageContent(world, tasks[t].title).links # <<>>
         /\ ChildrenOf(t) = {}


\* s is an initial part of t
IsPrefix(s, t) == Len(s) <= Len(t) /\ SubSeq(t, 1, Len(s)) = s

(***************************************************************************)
(* C38: the shared result is append-only: in every step of every           *)
(* interleaving visited only gains members, and texts and errors only gain *)
(* entries at the end; nothing is removed, replaced or reordered.          *)
(***************************************************************************)
C38_Step ==
    /\ result.visited \subseteq result'.visited
    /\ IsPrefix(result.texts, result'.texts)
    /\ IsPrefix(result.errors, result'.errors)

C38_AppendOnly == [][C38_Step]_vars

\* a traversal has returned after two branches ran together, with several
\* keys marked, two texts collected and an error recorded
C38_Witness ==
    /\ status = "returned"
    /\ max_concurrent >= 2
    /\ Cardinality(result.visited) >= 3
    /\ Len(result.texts) >= 2
    /\ Len(result.errors) >= 1

(***************************************************************************)
(* C39: under every interleaving each distinct article, identified by the  *)
(* canonical title its fetch returns, contributes at most one entry to     *)
(* texts, also when two links are aliases of one article and are           *)
(* dispatched concurrently.                                                *)
(***************************************************************************)
C39_OneTextPerArticle ==
    \A t, u \in WithOutcome("Fetched") :
        PageContent(world, tasks[t].title).title = PageContent(world, tasks[u].title).title
            => t = u

(***************************************************************************)
(* The page source clients: WikipediaAPIClient.get, its tenacity retry     *)
(* loop, _make_request and RetryAfterWait (src/services/wiki_client.py).   *)
(* WikiHTMLClient follows the same contract (spec 4.1; its tests).         *)
(* Optional values are sequences: <<>> is None, <<v>> is the value v.      *)
(* Waits are in seconds.                                                   *)
(***************************************************************************)
\* largest Settings.retry_max_attempts tried
MaxAttempts == 3

\* Settings.retry_min_wait, retry_max_wait, retry_multiplier, retry_jitter_max
retry_min_wait == 1
retry_max_wait == 30
retry_multiplier == 2
retry_jitter_max == 1

None == <<>>

Some(v) == <<v>>

\* the Retry-After header texts tried: seconds, and an HTTP date
HeaderTexts == {<<"4", "0">>, <<"S", "u", "n">>}

\* the status codes tried: both sides of 400, 429 and 500
StatusCodes == {200, 399, 400, 404, 429, 499, 500, 503}

\* What one network call can come to: an httpx exception, or a response with
\* its status code and its Retry-After header
NetOutcomes ==
    {[kind |-> k, status |-> 0, header |-> None] :
        k \in {"timeout", "connect", "request_error"}}
    \cup {[kind |-> "response", status |-> st, header |-> h] :
            st \in StatusCodes, h \in {None} \cup {Some(t) : t \in HeaderTexts}}

IsDigit(c) == c \in {"0", "1", "2", "3", "4", "5", "6", "7", "8", "9"}

DigitValue(c) ==
    CASE c = "0" -> 0 [] c = "1" -> 1 [] c = "2" -> 2 [] c = "3" -> 3 [] c = "4" -> 4
      [] c = "5" -> 5 [] c = "6" -> 6 [] c = "7" -> 7 [] c = "8" -> 8 [] c = "9" -> 9

RECURSIVE DecimalValue(_)
DecimalValue(text) ==
    IF text = <<>> THEN 0
    ELSE 10 * DecimalValue(SubSeq(text, 1, Len(text) - 1)) + DigitValue(text[Len(text)])

\* float(text) on the header texts tried: a run of digits is its value,
\* any other text is a ValueError (None here)
float(text) ==
    IF text # <<>> /\ \A i \in 1..Len(text) : IsDigit(text[i])
    THEN Some(DecimalValue(text))
    ELSE None

\* WikipediaAPIClient._parse_retry_after
parse_retry_after(header) == IF header = None THEN None ELSE float(header[1])

\* an exception of src/exceptions.py with its status_code and retry_after
Error(cls, status_code, retry_after) ==
    [cls |-> cls, status_code |-> status_code, retry_after |-> retry_after]

Raise(exc) == [kind |-> "raise", exc |-> Some(exc)]


\* a request that takes a server error for a fatal one
make_request_ServerErrorFatal(o) ==
    IF o.kind \in {"timeout", "connect"}
    THEN Raise(Error("RecoverableAPIError", None, None))
    ELSE IF o.kind = "request_error"
    THEN Raise(Error("WikipediaAPIError", None, None))
    ELSE IF o.status = 429
    THEN Raise(Error("RecoverableAPIError", Some(429), parse_retry_after(o.header)))
    ELSE IF o.status >= 400
    THEN Raise(Error("WikipediaAPIError", Some(o.status), None))
    ELSE [kind |-> "return", exc |-> None]

\* WikipediaAPIClient._make_request on the outcome o of client.get
make_request(o) ==
    IF o.kind \in {"timeout", "connect"}
    THEN Raise(Error("RecoverableAPIError", None, None))
    ELSE IF o.kind = "request_error"
    THEN Raise(Error("WikipediaAPIError", None, None))
    ELSE IF o.status = 429
    THEN Raise(Error("RecoverableAPIError", Some(429), parse_retry_after(o.header)))
    ELSE IF o.status >= 500
    THEN Raise(Error("RecoverableAPIError", Some(o.status), None))
    ELSE IF o.status >= 400
    THEN Raise(Error("WikipediaAPIError", Some(o.status), None))
    ELSE [kind |-> "return", exc |-> None]

\* WikiHTMLClient._make_request: the error classes of spec 7, the hint of
\* every Recoverable response taken from its Retry-After header
html_make_request(o) ==
    IF o.kind \in {"timeout", "connect"}
    THEN Raise(Error("RecoverableAPIError", None, None))
    ELSE IF o.kind = "request_error"
    THEN Raise(Error("WikipediaAPIError", None, None))
    ELSE IF o.status = 429 \/ o.status >= 500
    THEN Raise(Error("RecoverableAPIError", Some(o.status), parse_retry_after(o.header)))
    ELSE IF o.status >= 400
    THEN Raise(Error("WikipediaAPIError", Some(o.status), None))
    ELSE [kind |-> "return", exc |-> None]

\* a retry predicate that takes every API error for a transient one
retry_if_exception_type_AnyAPIError(exc) == isinstance(exc.cls, "WikipediaAPIError")

\* get, line 78: retry_if_exception_type(RecoverableAPIError)
retry_if_exception_type(exc) == isinstance(exc.cls, "RecoverableAPIError")

\* a stop condition that allows one attempt too many
stop_after_attempt_Late(attempt_number, max_attempts) == attempt_number > max_attempts

\* get, line 79: stop_after_attempt(retry_max_attempts)
stop_after_attempt(attempt_number, max_attempts) == attempt_number >= max_attempts

Min(a, b) == IF a <= b THEN a ELSE b

Max(a, b) == IF a >= b THEN a ELSE b

\* RetryAfterWait.__init__: tenacity's wait_exponential(multiplier, min, max),
\* max(max(0, min), min(multiplier * 2 ** (attempt_number - 1), max))
wait_exponential(attempt_number) ==
    Max(Max(0, retry_min_wait),
        Min(retry_multiplier * 2 ^ (attempt_number - 1), retry_max_wait))


\* a wait strategy that never reads the error's hint
RetryAfterWait_NoHint(exc, attempt_number, jitter) == wait_exponential(attempt_number)

\* RetryAfterWait.__call__, with the value random.uniform drew
RetryAfterWait(exc, attempt_number, jitter) ==
    IF isinstance(exc.cls, "RecoverableAPIError") /\ exc.retry_after # None
    THEN exc.retry_after[1] + jitter
    ELSE wait_exponential(attempt_number)

\* a loop that wraps the last error instead of re-raising it
reraise_Wrapped(exc) == Some(Error("RetryError", None, None))

\* get, line 81: reraise=True
reraise(exc) == exc

Clients == {"api", "html"}

\* get() has been called on a client whose settings allow n attempts
NewRetry(client, n) ==
    [phase |-> "calling", client |-> client, max_attempts |-> n,
     attempt_number |-> 1, calls |-> 0,
     outcomes |-> <<>>, errors |-> <<>>, waits |-> <<>>, raised |-> None]

\* no traversal runs
TraversalIdle ==
    /\ world = "star" /\ depth0 = 0 /\ max_concurrent = 1
    /\ tasks = <<>> /\ ready = <<>> /\ rl = NewRateLimiter(1)
    /\ result = [texts |-> <<>>, visited |-> {}, errors |-> <<>>]
    /\ fetched = <<>> /\ status = "idle"

RetryInit ==
    /\ \E client \in Clients, n \in 1..MaxAttempts : retry = NewRetry(client, n)
    /\ TraversalIdle
    /\ freq = Idle /\ calls = Idle /\ api = Idle /\ owners = Idle
    /\ parser = Idle /\ previous = Idle

\* get, lines 77-88: one attempt of the retrying call. The request is made;
\* its response is returned, or its exception is raised to the caller (not
\* retryable, or the attempts are used up), or the loop computes its wait.
AttemptOf(client) ==
    /\ retry.phase = "calling"
    /\ retry.client = client
    /\ \E o \in NetOutcomes, jitter \in 0..retry_jitter_max :
         LET r == IF client = "api" THEN make_request(o) ELSE html_make_request(o)
             a == retry.attempt_number
             seen == [retry EXCEPT !.calls = @ + 1, !.outcomes = Append(@, o),
                                   !.errors = Append(@, r.exc)]
         IN retry' =
              IF r.kind = "return" THEN [seen EXCEPT !.phase = "returned"]
              ELSE IF ~retry_if_exception_type(r.exc[1])
              THEN [seen EXCEPT !.phase = "raised", !.raised = r.exc]
              ELSE IF stop_after_attempt(a, retry.max_attempts)
              THEN [seen EXCEPT !.phase = "raised", !.raised = reraise(r.exc)]
              ELSE [seen EXCEPT !.phase = "waiting",
                                !.waits = Append(@, RetryAfterWait(r.exc[1], a, jitter))]
    /\ UNCHANGED notRetry

\* WikipediaAPIClient.get: one attempt
Attempt == AttemptOf("api")

\* WikiHTMLClient.get: one attempt
HtmlAttempt == AttemptOf("html")

\* the wait between two attempts has passed
Backoff ==
    /\ retry.phase = "waiting"
    /\ retry' = [retry EXCEPT !.phase = "calling", !.attempt_number = @ + 1]
    /\ UNCHANGED notRetry

RetryNext ==
    \/ Attempt
    \/ HtmlAttempt
    \/ Backoff

RetrySpec == RetryInit /\ [][RetryNext]_vars

\* the error classes of spec 7, by what the network call came to
RecoverableOutcome(o) ==
    \/ o.kind \in {"timeout", "connect"}
    \/ o.kind = "response" /\ (o.status = 429 \/ o.status >= 500)

SuccessOutcome(o) == o.kind = "response" /\ o.status < 400

NonRecoverableOutcome(o) == ~RecoverableOutcome(o) /\ ~SuccessOutcome(o)

\* the outcome of the latest network call
LastOutcome == retry.outcomes[Len(retry.outcomes)]

(***************************************************************************)
(* C15. For every sequence of per-attempt outcomes and every max-attempts  *)
(* N >= 1, get() makes network calls until the first success, the first    *)
(* non-recoverable error or N recoverable failures: it returns on the      *)
(* k-th attempt with exactly k calls, and after N recoverable failures it  *)
(* has made exactly N calls and raises the Recoverable error of the final  *)
(* attempt unchanged; for the API client and the HTML client alike.        *)
(***************************************************************************)
C15_RetryUntilSuccessOrExhausted ==
    LET n == Len(retry.outcomes)
    IN /\ retry.calls = n /\ n <= retry.max_attempts
       /\ retry.attempt_number = IF retry.phase = "calling" THEN n + 1 ELSE n
       /\ \A i \in 1..(n - 1) : RecoverableOutcome(retry.outcomes[i])
       /\ retry.phase \in {"calling", "waiting"} =>
            /\ n < retry.max_attempts
            /\ \A i \in 1..n : RecoverableOutcome(retry.outcomes[i])
       /\ Len(retry.waits) = IF retry.phase \in {"calling", "waiting"} THEN n ELSE n - 1
       /\ retry.phase = "returned" <=> n > 0 /\ SuccessOutcome(LastOutcome)
       /\ retry.phase = "raised" <=>
            /\ n > 0
            /\ \/ NonRecoverableOutcome(LastOutcome)
               \/ RecoverableOutcome(LastOutcome) /\ n = retry.max_attempts
       /\ retry.phase = "raised" /\ RecoverableOutcome(LastOutcome) =>
            /\ retry.raised = retry.errors[n]
            /\ retry.raised[1].cls = "RecoverableAPIError"

\* three attempts were allowed and all three failed recoverably in
\* different ways: three calls, and the last error is raised
C15_Witness ==
    /\ retry.phase = "raised" /\ retry.max_attempts = 3 /\ retry.calls = 3
    /\ retry.outcomes[1].kind = "timeout"
    /\ retry.outcomes[2].status = 429
    /\ retry.outcomes[3].status = 500
    /\ retry.raised = retry.errors[3]
    /\ retry.raised[1].status_code = Some(500)

(***************************************************************************)
(* C16. A non-recoverable error (HTTP 4xx other than 429, or a request     *)
(* error that is neither timeout nor connection failure) raised by any     *)
(* attempt of WikipediaAPIClient.get, the first or a later one, is raised  *)
(* to the caller at once: no network call and no backoff wait follows it.  *)
(***************************************************************************)
C16_NonRecoverableRaisedAtOnce ==
    retry.client = "api" =>
        \A i \in 1..Len(retry.outcomes) :
            NonRecoverableOutcome(retry.outcomes[i]) =>
                /\ i = Len(retry.outcomes) /\ retry.calls = i
                /\ retry.phase = "raised"
                /\ retry.raised = retry.errors[i]
                /\ retry.raised[1].cls = "WikipediaAPIError"
                /\ Len(retry.waits) = i - 1

\* a 404 on the second attempt, after a timeout, ended the call with three
\* attempts allowed
C16_Witness ==
    /\ retry.client = "api" /\ retry.max_attempts = 3
    /\ retry.phase = "raised" /\ retry.calls = 2
    /\ retry.outcomes[1].kind = "timeout"
    /\ retry.outcomes[2].status = 404
    /\ Len(retry.waits) = 1

(***************************************************************************)
(* C17. Whenever a response classified as Recoverable (HTTP 429 or 5xx)    *)
(* carries a Retry-After header that parses as s seconds, the error raised *)
(* for it carries retry_after = s and the wait before the next attempt is  *)
(* at least s; with the header absent or unparsable it carries no hint.    *)
(***************************************************************************)
C17_RetryAfterHonoured ==
    \A i \in 1..Len(retry.outcomes) :
        LET o == retry.outcomes[i]
            s == parse_retry_after(o.header)
        IN o.kind = "response" /\ (o.status = 429 \/ o.status >= 500) =>
             /\ retry.errors[i][1].retry_after = s
             /\ s # None /\ i <= Len(retry.waits) => retry.waits[i] >= s[1]


\* the wait spec 4.1 gives for attempt number a without a hint
RECURSIVE Power(_, _)
Power(b, n) == IF n = 0 THEN 1 ELSE b * Power(b, n - 1)

(***************************************************************************)
(* C32. When the error that triggers a retry carries no retryAfter hint,   *)
(* the wait before attempt a + 1 is                                        *)
(* min(maxWait, minWait * multiplier^(a - 1)): 1, 2, 4 seconds with the    *)
(* default settings.                                                       *)
(***************************************************************************)
C32_ExponentialWait ==
    \A a \in 1..Len(retry.waits) :
        retry.errors[a][1].retry_after = None =>
            retry.waits[a] =
                Min(retry_max_wait, retry_min_wait * Power(retry_multiplier, a - 1))

(***************************************************************************)
(* C33. When the error that triggers a retry of WikipediaAPIClient.get     *)
(* carries a retryAfter hint h, the wait before the next attempt lies in   *)
(* [h, h + jitterMax], whatever the attempt number and minWait/maxWait;    *)
(* an attempt whose error has no hint never waits by an earlier hint.      *)
(***************************************************************************)
C33_HintedWait ==
    retry.client = "api" =>
        \A a \in 1..Len(retry.waits) :
            LET hint == retry.errors[a][1].retry_after
            IN IF hint # None
               THEN hint[1] <= retry.waits[a] /\ retry.waits[a] <= hint[1] + retry_jitter_max
               ELSE retry.waits[a] = wait_exponential(a)

\* a 429 with Retry-After: 40 was waited for 41 seconds (more than maxWait),
\* and the timeout that followed for the exponential 4 seconds
C33_Witness ==
    /\ retry.client = "api" /\ retry.max_attempts = 3
    /\ Len(retry.waits) = 2
    /\ retry.errors[1][1].retry_after = Some(40)
    /\ retry.waits[1] = 41 /\ retry.waits[1] > retry_max_wait
    /\ retry.outcomes[2].kind = "timeout"
    /\ retry.waits[2] = 4

(***************************************************************************)
(* C34. One attempt of WikipediaAPIClient puts every outcome into exactly  *)
(* one class: timeout, connection failure, HTTP 429 and every status       *)
(* >= 500 are Recoverable; every status in 400..499 other than 429 is      *)
(* non-recoverable; every status below 400 is returned as the response.    *)
(***************************************************************************)
C34_OutcomeClasses ==
    retry.client = "api" =>
        \A i \in 1..Len(retry.outcomes) :
            LET o == retry.outcomes[i]
                exc == retry.errors[i]
                recoverable == exc # None /\ exc[1].cls = "RecoverableAPIError"
                fatal == exc # None /\ exc[1].cls = "WikipediaAPIError"
                returned == exc = None
            IN /\ Cardinality({c \in {"recoverable", "fatal", "returned"} :
                                  \/ c = "recoverable" /\ recoverable
                                  \/ c = "fatal" /\ fatal
                                  \/ c = "returned" /\ returned}) = 1
               /\ o.kind \in {"timeout", "connect"} => recoverable
               /\ o.kind = "response" /\ (o.status = 429 \/ o.status >= 500) => recoverable
               /\ o.kind = "response" /\ o.status \in 400..499 /\ o.status # 429 => fatal
               /\ o.kind = "response" /\ o.status < 400 =>
                    returned /\ i = Len(retry.outcomes) /\ retry.phase = "returned"

\* a 503, a 429 and a 499 in a row: two Recoverable errors and a fatal one
C34_Witness ==
    /\ retry.client = "api" /\ retry.phase = "raised"
    /\ Len(retry.outcomes) = 3
    /\ retry.outcomes[1].status = 503 /\ retry.errors[1][1].cls = "RecoverableAPIError"
    /\ retry.outcomes[2].status = 429 /\ retry.errors[2][1].cls = "RecoverableAPIError"
    /\ retry.outcomes[3].status = 499 /\ retry.errors[3][1].cls = "WikipediaAPIError"

(***************************************************************************)
(* WordFrequencyService (src/services/frequency.py). Texts and words are   *)
(* sequences of one-character strings. A Counter or dict is the sequence   *)
(* of its entries in insertion order. A percentage is kept as the exact    *)
(* ratio num / den; the cut-off index is computed as IEEE-754 doubles      *)
(* compute it.                                                             *)
(***************************************************************************)
\* most texts passed to calculate
MaxTexts == 2
\* most unique words in a dict passed to _filter_by_percentile
MaxUnique == 50

\* the texts tried: "a A b", "B,c", "a 12 b1", "", "c_c C", "7"
TextPool ==
    {<<"a", " ", "A", " ", "b">>, <<"B", ",", "c">>,
     <<"a", " ", "1", "2", " ", "b", "1">>, <<>>,
     <<"c", "_", "c", " ", "C">>, <<"7">>}

\* the ignore lists tried
IgnoreLists ==
    {<<>>, << <<"A">> >>, << <<"b">>, <<"C">> >>, << <<"Z">>, <<"B", "1">> >>,
     << <<"a">>, <<"b">>, <<"c">>, <<"b", "1">>, <<"c", "_", "c">> >>}

\* the percentile arguments tried on texts
Percentiles == {None, Some(0), Some(34), Some(50), Some(100)}

IsSpace(c) == c = " "

\* \w: letters, digits and the underscore
IsWordChar(c) == ~IsSpace(c) /\ c \notin {",", ".", "!", "-", "'"}


\* a substitution that leaves the punctuation in
sub_punctuation_Keep(text) == text

\* re.sub(r"[^\w\s]", " ", text)
sub_punctuation(text) ==
    [i \in 1..Len(text) |->
        IF ~IsWordChar(text[i]) /\ ~IsSpace(text[i]) THEN " " ELSE text[i]]

\* the length of the run of non-space characters text starts with
WordEnd(text) ==
    IF \E i \in 1..Len(text) : IsSpace(text[i])
    THEN (CHOOSE i \in 1..Len(text) :
              IsSpace(text[i]) /\ \A j \in 1..(i - 1) : ~IsSpace(text[j])) - 1
    ELSE Len(text)

\* str.split()
RECURSIVE split(_)
split(text) ==
    IF text = <<>> THEN <<>>
    ELSE IF IsSpace(text[1]) THEN split(Tail(text))
    ELSE <<SubSeq(text, 1, WordEnd(text))>>
             \o split(SubSeq(text, WordEnd(text) + 1, Len(text)))

\* str.isdigit()
isdigit(word) == word # <<>> /\ \A i \in 1..Len(word) : IsDigit(word[i])

\* WordFrequencyService._tokenize
tokenize(text) ==
    SelectSeq(split(sub_punctuation(lower(text))),
              LAMBDA word : word # <<>> /\ ~isdigit(word))

\* Counter: one more occurrence of word
Increment(counter, word) ==
    IF \E i \in 1..Len(counter) : counter[i].word = word
    THEN [i \in 1..Len(counter) |->
            IF counter[i].word = word
            THEN [counter[i] EXCEPT !.count = @ + 1] ELSE counter[i]]
    ELSE Append(counter, [word |-> word, count |-> 1])

\* Counter.update(words)
RECURSIVE update(_, _)
update(counter, words) ==
    IF words = <<>> THEN counter
    ELSE update(Increment(counter, Head(words)), Tail(words))

\* a count that only reads the first text
count_words_FirstOnly(texts) ==
    IF texts = <<>> THEN <<>> ELSE update(<<>>, tokenize(texts[1]))

\* calculate, lines 41-44: the words of all texts counted together
RECURSIVE count_words(_)
count_words(texts) ==
    IF texts = <<>> THEN <<>>
    ELSE update(count_words(SubSeq(texts, 1, Len(texts) - 1)),
                tokenize(texts[Len(texts)]))


\* an ignore set taken as written
ignore_set_AsGiven(ignore_list) == {ignore_list[i] : i \in 1..Len(ignore_list)}

\* calculate, line 38: the ignore list, lowercased
ignore_set(ignore_list) == {lower(ignore_list[i]) : i \in 1..Len(ignore_list)}


\* an ignore list that removes nothing
pop_ignored_Nothing(word_counts, ignored) == word_counts

\* calculate, lines 50-51: word_counts.pop(word, None) for every ignored word
pop_ignored(word_counts, ignored) ==
    SelectSeq(word_counts, LAMBDA entry : entry.word \notin ignored)

\* sum(word_counts.values())
RECURSIVE total_words(_)
total_words(word_counts) ==
    IF word_counts = <<>> THEN 0
    ELSE Head(word_counts).count + total_words(Tail(word_counts))

\* a percentage that is only the fraction
percentage_Fraction(count, total) == [num |-> count, den |-> total]

\* calculate, line 62: (count / total_words) * 100, as an exact ratio
percentage(count, total) == [num |-> count * 100, den |-> total]

\* percentile / 100 lies in [2^-j, 2^(1-j)): the least j with percentile * 2^j >= 100
RECURSIVE BinadeShift(_)
BinadeShift(scaled) == IF scaled >= 100 THEN 0 ELSE 1 + BinadeShift(2 * scaled)

\* (r * 2^s) mod 100
RECURSIVE DoubledMod(_, _)
DoubledMod(r, s) == IF s = 0 THEN r % 100 ELSE DoubledMod((2 * r) % 100, s - 1)

\* The double percentile / 100 has a 53-bit significand M and unit 2^-s,
\* s = 52 + BinadeShift(percentile); it is (percentile + n / 2^s) / 100 with
\* n = 100 * M - percentile * 2^s, a round-to-nearest remainder within -50..50
QuotientError(percentile) ==
    LET r == DoubledMod(percentile, 52 + BinadeShift(percentile))
    IN IF r < 50 THEN 0 - r ELSE 100 - r

RECURSIVE FloorLog2(_)
FloorLog2(k) == IF k < 2 THEN 0 ELSE 1 + FloorLog2(k \div 2)

\* a cut-off index computed in exact arithmetic
cutoff_index_Exact(total_unique, percentile) == (total_unique * percentile) \div 100

\* _filter_by_percentile, line 116: int(total_unique * (percentile / 100)).
\* The product of total_unique and the double percentile / 100 is rounded to
\* the nearest double and truncated. It falls short of the integer
\* k = total_unique * percentile / 100 only when the quotient was rounded
\* down and its error, times total_unique, exceeds half the gap between k
\* and the double below k.
cutoff_index(total_unique, percentile) ==
    LET product == total_unique * percentile
        k == product \div 100
        n == QuotientError(percentile)
        gapShift == BinadeShift(percentile) + FloorLog2(k) - 1
                        - (IF 2 ^ FloorLog2(k) = k THEN 1 ELSE 0)
    IN IF product = 0 \/ product % 100 # 0 \/ n >= 0 THEN k
       ELSE IF total_unique * (0 - n) * 2 ^ Max(0, 0 - gapShift) > 100 * 2 ^ Max(0, gapShift)
       THEN k - 1
       ELSE k

\* sorted(frequencies.items(), key=count, reverse=True): a stable sort
RECURSIVE sorted_by_count(_)
sorted_by_count(entries) ==
    IF entries = <<>> THEN <<>>
    ELSE LET counts == {entries[i].count : i \in 1..Len(entries)}
             top == CHOOSE c \in counts : \A d \in counts : d <= c
         IN SelectSeq(entries, LAMBDA entry : entry.count = top)
                \o sorted_by_count(SelectSeq(entries, LAMBDA entry : entry.count # top))

\* WordFrequencyService._filter_by_percentile
filter_by_percentile(frequencies, percentile) ==
    IF frequencies = <<>> THEN frequencies
    ELSE LET sorted_words == sorted_by_count(frequencies)
             total_unique == Len(sorted_words)
         IN SubSeq(sorted_words, 1, total_unique - cutoff_index(total_unique, percentile))

\* calculate, lines 57-63: the dict of WordFrequency entries
frequencies_of(word_counts) ==
    [i \in 1..Len(word_counts) |->
        [word |-> word_counts[i].word, count |-> word_counts[i].count,
         percentage |-> percentage(word_counts[i].count, total_words(word_counts))]]

\* WordFrequencyService.calculate
calculate(texts, ignore_list, percentile) ==
    LET word_counts == pop_ignored(count_words(texts), ignore_set(ignore_list))
    IN IF word_counts = <<>> THEN <<>>
       ELSE IF percentile = None THEN frequencies_of(word_counts)
       ELSE filter_by_percentile(frequencies_of(word_counts), percentile[1])

\* the i-th of the distinct words a large dict is filled with
Word(i) == [j \in 1..i |-> "a"]

\* the counts a large dict is filled with: all equal, or uneven with ties
CountOf(shape, i) == IF shape = "flat" THEN 1 ELSE 1 + (i % 3)

ListsOver(pool, n) == UNION {[1..m -> pool] : m \in 0..n}

\* calculate has been called on texts, or _filter_by_percentile on a dict
FreqInit ==
    /\ \/ \E texts \in ListsOver(TextPool, MaxTexts), ignore_list \in IgnoreLists,
             percentile \in Percentiles :
            freq = [phase |-> "called", texts |-> texts, ignore_list |-> ignore_list,
                    percentile |-> percentile, frequencies |-> <<>>, response |-> <<>>]
       \/ \E u \in 0..MaxUnique, shape \in {"flat", "uneven"}, percentile \in 0..100 :
            freq = [phase |-> "filtering", texts |-> <<>>, ignore_list |-> <<>>,
                    percentile |-> Some(percentile),
                    frequencies |->
                        frequencies_of([i \in 1..u |->
                            [word |-> Word(i), count |-> CountOf(shape, i)]]),
                    response |-> <<>>]
    /\ TraversalIdle
    /\ retry = Idle /\ calls = Idle /\ api = Idle /\ owners = Idle
    /\ parser = Idle /\ previous = Idle

\* calculate runs and returns its response
Calculate ==
    /\ freq.phase = "called"
    /\ freq' = [freq EXCEPT !.phase = "returned",
                            !.response = calculate(freq.texts, freq.ignore_list,
                                                   freq.percentile)]
    /\ UNCHANGED notFreq

\* _filter_by_percentile runs on the dict calculate built
Filter ==
    /\ freq.phase = "filtering"
    /\ freq' = [freq EXCEPT !.phase = "filtered",
                            !.response = filter_by_percentile(freq.frequencies,
                                                              freq.percentile[1])]
    /\ UNCHANGED notFreq

FreqNext ==
    \/ Calculate
    \/ Filter

FreqSpec == FreqInit /\ [][FreqNext]_vars

\* the tokens of all texts of the call, in order
RECURSIVE AllTokens(_)
AllTokens(texts) ==
    IF texts = <<>> THEN <<>> ELSE tokenize(Head(texts)) \o AllTokens(Tail(texts))

\* how often word occurs among the tokens
Occurrences(tokens, word) == Cardinality({i \in 1..Len(tokens) : tokens[i] = word})

\* the lowercased entries of the call's ignore list
IgnoredWords == {lower(freq.ignore_list[i]) : i \in 1..Len(freq.ignore_list)}

\* the tokens of the call that are not ignored
SurvivingTokens == SelectSeq(AllTokens(freq.texts), LAMBDA word : word \notin IgnoredWords)

RECURSIVE SumCounts(_)
SumCounts(entries) ==
    IF entries = <<>> THEN 0 ELSE Head(entries).count + SumCounts(Tail(entries))

\* the sum of the percentages, over their common denominator
RECURSIVE SumNums(_)
SumNums(entries) ==
    IF entries = <<>> THEN 0 ELSE Head(entries).percentage.num + SumNums(Tail(entries))

Keys(entries) == {entries[i].word : i \in 1..Len(entries)}

\* each surviving word once, with its occurrences over all texts and
\* percentage = 100 * count / T, T the number of surviving tokens
C18_PerWord ==
    LET resp == freq.response
        T == Len(SurvivingTokens)
    IN /\ Keys(resp) = Range(SurvivingTokens)
       /\ Cardinality(Keys(resp)) = Len(resp)
       /\ \A i \in 1..Len(resp) :
            /\ resp[i].count = Occurrences(AllTokens(freq.texts), resp[i].word)
            /\ resp[i].percentage.den = T
            /\ resp[i].percentage.num = 100 * resp[i].count
       /\ SumCounts(resp) = T

Unfiltered ==
    IF freq.phase = "filtered" THEN freq.frequencies
    ELSE calculate(freq.texts, freq.ignore_list, None)

(***************************************************************************)
(* C19. For every input with u unique surviving words and every integer    *)
(* percentile p in 0..100, calculate retains exactly u - floor(u * p /     *)
(* 100) words, every retained word has a count >= that of every dropped    *)
(* word, p = 0 keeps all u words and p = 100 keeps none.                   *)
(***************************************************************************)
C19_PercentileKeepsTop ==
    freq.phase \in {"returned", "filtered"} /\ freq.percentile # None =>
        LET u == Len(Unfiltered)
            pct == freq.percentile[1]
            kept == freq.response
            dropped == SelectSeq(Unfiltered, LAMBDA entry : entry.word \notin Keys(kept))
        IN /\ Len(kept) = u - ((u * pct) \div 100)
           /\ Cardinality(Keys(kept)) = Len(kept)
           /\ Keys(kept) \subseteq Keys(Unfiltered)
           /\ \A i \in 1..Len(kept), j \in 1..Len(dropped) :
                kept[i].count >= dropped[j].count
           /\ pct = 0 => Len(kept) = u
           /\ pct = 100 => kept = <<>>

(***************************************************************************)
(* C20. For every texts and ignore list, no key of the mapping calculate   *)
(* returns equals the lowercased form of an ignore-list entry, whatever    *)
(* the letter case of the entry and of the word's occurrences; the words   *)
(* matching no entry have the counts they have without the ignore list.    *)
(***************************************************************************)
C20_IgnoreListCaseInsensitive ==
    freq.phase = "returned" =>
        LET with == calculate(freq.texts, freq.ignore_list, None)
            without == calculate(freq.texts, <<>>, None)
        IN /\ Keys(freq.response) \cap IgnoredWords = {}
           /\ Keys(with) = Keys(without) \ IgnoredWords
           /\ \A i \in 1..Len(with), j \in 1..Len(without) :
                with[i].word = without[j].word => with[i].count = without[j].count

\* the entry "A" removed the word "a", which occurs as "a" and as "A", and
\* left the other words
C20_Witness ==
    /\ freq.phase = "returned" /\ freq.percentile = None
    /\ freq.ignore_list = << <<"A">> >>
    /\ <<"a", " ", "A", " ", "b">> \in Range(freq.texts)
    /\ <<"b">> \in Keys(freq.response)
    /\ <<"a">> \notin Keys(freq.response)


\* C21: calculate returns for every input, and returns the empty mapping
\* whenever no word survives tokenisation and the ignore list (no texts, texts
\* without tokens, every token ignored), whatever the percentile; the
\* percentage of a returned word is never a division by zero.
C21_EmptyWhenNothingSurvives ==
    freq.phase = "returned" =>
        /\ SurvivingTokens = <<>> => freq.response = <<>>
        /\ \A i \in 1..Len(freq.response) : freq.response[i].percentage.den > 0

\* every token of the texts is on the ignore list, and a percentile is given
C21_Witness ==
    /\ freq.phase = "returned"
    /\ freq.percentile # None
    /\ AllTokens(freq.texts) # <<>>
    /\ SurvivingTokens = <<>>
    /\ freq.response = <<>>



\* the lists that hold the same texts as often, in any order
Reorderings(texts) ==
    {p \in [1..Len(texts) -> Range(texts)] :
        \A x \in Range(texts) :
            Cardinality({i \in 1..Len(p) : p[i] = x})
                = Cardinality({i \in 1..Len(texts) : texts[i] = x})}

\* a mapping as the set of its entries (dict equality ignores the order)
AsMapping(entries) == Range(entries)

\* the counts of the entries, in the order of the entries
CountsOf(entries) == [i \in 1..Len(entries) |-> entries[i].count]

\* the filter of the call cut between two words of equal count
TieAtCutoff ==
    LET all == calculate(freq.texts, freq.ignore_list, None)
    IN /\ freq.response # <<>>
       /\ \E i \in 1..Len(all) :
            /\ all[i] \notin AsMapping(freq.response)
            /\ \E j \in 1..Len(freq.response) : freq.response[j].count = all[i].count

\* C35 as stated: for every ignore list and every percentile (none
\* included), every permutation of the texts gives the same mapping.
C35_OrderIndependent ==
    freq.phase = "returned" =>
        \A p \in Reorderings(freq.texts) :
            AsMapping(calculate(p, freq.ignore_list, freq.percentile))
                = AsMapping(freq.response)

\* C35, amended: every permutation of the texts gives the same counts and
\* percentages per word, hence the same mapping without a percentile; with a
\* percentile it gives as many words with the same counts, each with its
\* count and percentage of the unfiltered mapping, and the same mapping
\* unless the cut falls between words of equal count, which are kept in the
\* order of their first occurrence in the texts.
C35_OrderIndependentUpToTies ==
    freq.phase = "returned" =>
        \A p \in Reorderings(freq.texts) :
            LET permuted == calculate(p, freq.ignore_list, freq.percentile)
                all == calculate(freq.texts, freq.ignore_list, None)
            IN /\ AsMapping(calculate(p, freq.ignore_list, None)) = AsMapping(all)
               /\ Len(permuted) = Len(freq.response)
               /\ AsMapping(permuted) \subseteq AsMapping(all)
               /\ freq.percentile # None => CountsOf(permuted) = CountsOf(freq.response)
               /\ ~TieAtCutoff => AsMapping(permuted) = AsMapping(freq.response)

\* "B,c" then "c_c C" at percentile 50 keeps c and b; the texts in the other
\* order keep c and c_c: the same counts, another word of count 1
C35_Witness ==
    /\ freq.phase = "returned"
    /\ Len(freq.texts) = 2 /\ freq.texts[1] # freq.texts[2]
    /\ freq.percentile = Some(50)
    /\ TieAtCutoff
    /\ LET swapped == calculate(<<freq.texts[2], freq.texts[1]>>, freq.ignore_list,
                                freq.percentile)
       IN /\ AsMapping(swapped) # AsMapping(freq.response)
          /\ CountsOf(swapped) = CountsOf(freq.response)

(***************************************************************************)
(* _tokenize on its own, on every text of up to MaxTextLen characters over *)
(* one character of each class: a lowercase letter, an uppercase letter    *)
(* with a lowercase form, a digit, a blank, a punctuation mark outside \w, *)
(* the underscore, and U+2102 (a letter of category Lu that str.lower()    *)
(* leaves unchanged).                                                      *)
(***************************************************************************)
MaxTextLen == 4

TokenAlphabet == {"a", "B", "1", " ", ",", "_", "U+2102"}

TextsUpTo(n) == UNION {[1..k -> TokenAlphabet] : k \in 0..n}

TokenInit ==
    /\ \E text \in TextsUpTo(MaxTextLen) :
         freq = [phase |-> "tokenizing", text |-> text, tokens |-> <<>>]
    /\ TraversalIdle
    /\ retry = Idle /\ calls = Idle /\ api = Idle /\ owners = Idle
    /\ parser = Idle /\ previous = Idle

\* _tokenize runs and returns its list
Tokenize ==
    /\ freq.phase = "tokenizing"
    /\ freq' = [freq EXCEPT !.phase = "tokenized", !.tokens = tokenize(freq.text)]
    /\ UNCHANGED notFreq

TokenNext == Tokenize

TokenSpec == TokenInit /\ [][TokenNext]_vars

\* str.isupper() of one character
IsUpper(c) == LowerChar(c) # c \/ c = "U+2102"

\* the characters of string.punctuation (Unicode categories P*)
IsPunctuation(c) == c \in {",", ".", "!", "-", "'", "_"}

\* position i starts a maximal run of word characters of s
RunStart(s, i) == IsWordChar(s[i]) /\ (i = 1 \/ ~IsWordChar(s[i - 1]))

\* the last position of the run of word characters that holds position i
RunEnd(s, i) ==
    CHOOSE j \in i..Len(s) :
        /\ \A k \in i..j : IsWordChar(s[k])
        /\ j = Len(s) \/ ~IsWordChar(s[j + 1])

\* the maximal runs of word characters of s from position i on, in order
RECURSIVE RunsFrom(_, _)
RunsFrom(s, i) ==
    IF i > Len(s) THEN <<>>
    ELSE IF RunStart(s, i) THEN <<SubSeq(s, i, RunEnd(s, i))>> \o RunsFrom(s, i + 1)
    ELSE RunsFrom(s, i + 1)

\* the runs of the lowercased text, the digit-only ones dropped
C22_Runs ==
    SelectSeq(RunsFrom(lower(freq.text), 1),
              LAMBDA run : \E i \in 1..Len(run) : ~IsDigit(run[i]))

MaxCallDepth == 1

\* the start titles of the second call
SecondTitles == {A, X}

\* one TraversalResult for every call
new_result_Shared(c) == 1

\* traverse, line 355: result = TraversalResult(), an object of this call
new_result(c) == c

\* traverse, lines 356-359: rate_limiter = RateLimiter(...), an object of this call
new_rate_limiter(c) == c

\* traverse(title, depth), call number c, up to its root branch
NewCall(c, title, depth) ==
    [tasks |-> <<NewTask(title, depth, 0)>>, result |-> new_result(c),
     rate_limiter |-> new_rate_limiter(c), fetched |-> <<>>, status |-> "running"]

CallsInit ==
    /\ \E k \in 1..MaxK, title2 \in SecondTitles, d1 \in 0..MaxCallDepth,
          d2 \in 0..MaxCallDepth :
         calls = [phase |-> "running", world |-> "alias", max_concurrent |-> k,
                  run |-> <<NewCall(1, StartTitle("alias"), d1), NewCall(2, title2, d2)>>,
                  results |-> [i \in 1..2 |->
                                  [texts |-> <<>>, visited |-> {}, errors |-> <<>>]],
                  gates |-> [i \in 1..2 |-> NewRateLimiter(k)],
                  ready |-> << <<1, 1>>, <<2, 1>> >>]
    /\ TraversalIdle
    /\ retry = Idle /\ freq = Idle /\ api = Idle /\ owners = Idle
    /\ parser = Idle /\ previous = Idle

\* the branch at the head of the loop's queue stands at pc
HeadAt(pc) ==
    /\ calls.phase = "running"
    /\ calls.ready # <<>>
    /\ calls.run[Head(calls.ready)[1]].tasks[Head(calls.ready)[2]].pc = pc

\* the branches ts of call c, as the loop knows them
Tag(c, ts) == [i \in 1..Len(ts) |-> <<c, ts[i]>>]

\* what a gate step r leaves behind for branch t of call c
CallAfterGate(cs, c, t, r) ==
    [cs EXCEPT !.gates[cs.run[c].rate_limiter] = r.g,
               !.run[c].tasks[t].pc = r.pc,
               !.run[c].fetched =
                    IF r.pc = "fetching" THEN Append(@, cs.run[c].tasks[t].title) ELSE @,
               !.ready = Tail(cs.ready) \o r.wake]

\* branch t of call c returns or raises
CallFinish(cs, c, t, outcome, raised, wake) ==
    LET f == Finish(cs.run[c].tasks, t, outcome, raised)
    IN [cs EXCEPT !.run[c].tasks = f.tasks,
                  !.run[c].status = IF f.status = "" THEN @ ELSE f.status,
                  !.ready = Tail(cs.ready) \o wake \o Tag(c, f.wake)]

\* _traverse_recursive, lines 377-384, in one of the two calls
CallStart ==
    /\ HeadAt("new")
    /\ LET c == Head(calls.ready)[1]
           t == Head(calls.ready)[2]
           res == calls.run[c].result
           n == normalize_title(calls.run[c].tasks[t].title)
       IN calls' =
            IF already_visited(n, calls.results[res].visited)
            THEN CallFinish(calls, c, t, "Skipped", FALSE, <<>>)
            ELSE CallAfterGate(
                     [calls EXCEPT !.results[res].visited = mark_visited(@, n)], c, t,
                     acquire(calls.gates[calls.run[c].rate_limiter], <<c, t>>))
    /\ UNCHANGED notCalls

\* Semaphore.acquire resumes in one of the two calls
CallWakeSem ==
    /\ HeadAt("semwait")
    /\ LET c == Head(calls.ready)[1]
           t == Head(calls.ready)[2]
           g1 == [calls.gates[calls.run[c].rate_limiter] EXCEPT
                      !.semQ = Remove(@, <<c, t>>), !.semWoken = @ \ {<<c, t>>}]
           w == WakeWhileFree(g1)
           r == EnterLock(w.g, <<c, t>>)
       IN calls' = CallAfterGate(calls, c, t, [r EXCEPT !.wake = w.wake \o @])
    /\ UNCHANGED notCalls

\* Lock.acquire resumes in one of the two calls
CallWakeLock ==
    /\ HeadAt("lockwait")
    /\ LET c == Head(calls.ready)[1]
           t == Head(calls.ready)[2]
           g1 == [calls.gates[calls.run[c].rate_limiter] EXCEPT
                      !.lockQ = Remove(@, <<c, t>>), !.locked = TRUE]
       IN calls' = CallAfterGate(calls, c, t, Throttle(g1, <<c, t>>))
    /\ UNCHANGED notCalls

\* asyncio.sleep returns in one of the two calls
CallWakeSleep ==
    /\ HeadAt("sleeping")
    /\ LET c == Head(calls.ready)[1]
           t == Head(calls.ready)[2]
       IN calls' = CallAfterGate(calls, c, t,
                                 Admit(calls.gates[calls.run[c].rate_limiter], <<c, t>>))
    /\ UNCHANGED notCalls

\* _traverse_recursive, lines 385-414, in one of the two calls
CallFetchDone ==
    /\ HeadAt("fetching")
    /\ LET c == Head(calls.ready)[1]
           t == Head(calls.ready)[2]
           run == calls.run[c]
           tk == run.tasks[t]
           out == fetch_page(calls.world, tk.title, tk.resp)
           page == PageContent(calls.world, tk.title)
           rel == release(calls.gates[run.rate_limiter])
           kids == expand_links(tk.depth, page.links)
           n == Len(run.tasks)
           released == [calls EXCEPT !.gates[run.rate_limiter] = rel.g]
           recorded ==
               CASE out.kind = "page" ->
                      [released EXCEPT !.results[run.result].visited = @ \cup PageKeys(page),
                                       !.results[run.result].texts = Append(@, page.text)]
                 [] out.kind = "raise" /\ caught(out.exc) ->
                      [released EXCEPT !.results[run.result].errors =
                          Append(@, [title |-> tk.title, error |-> out.exc])]
                 [] OTHER -> released
       IN /\ tk.resp # ""
          /\ calls' =
               IF out.kind = "page" /\ kids # <<>>
               THEN [recorded EXCEPT
                        !.run[c].tasks =
                            [run.tasks EXCEPT ![t].pc = "gather", ![t].outcome = "Fetched",
                                              ![t].pending = Len(kids)]
                              \o [i \in 1..Len(kids) |-> NewTask(kids[i], tk.depth - 1, t)],
                        !.ready = Tail(calls.ready) \o rel.wake
                                      \o [i \in 1..Len(kids) |-> <<c, n + i>>]]
               ELSE CallFinish(recorded, c, t,
                               CASE out.kind = "page" -> "Fetched"
                                 [] out.kind = "none" -> "NotFound"
                                 [] out.kind = "raise" /\ caught(out.exc) -> "Failed"
                                 [] OTHER -> "Raised",
                               out.kind = "raise" /\ ~caught(out.exc), rel.wake)
    /\ UNCHANGED notCalls

\* line 414: asyncio.gather has resolved in one of the two calls
CallGatherDone ==
    /\ HeadAt("gathered")
    /\ LET c == Head(calls.ready)[1]
           t == Head(calls.ready)[2]
           tk == calls.run[c].tasks[t]
       IN calls' = CallFinish(calls, c, t, tk.outcome, tk.exc, <<>>)
    /\ UNCHANGED notCalls

\* the network answers one fetch in flight of one of the two calls
CallIOComplete ==
    /\ calls.phase = "running"
    /\ \E c \in 1..2 :
         \E t \in 1..Len(calls.run[c].tasks) :
           \E resp \in ResponsesFor(calls.world, calls.run[c].tasks[t].title) :
             /\ calls.run[c].tasks[t].pc = "fetching"
             /\ calls.run[c].tasks[t].resp = ""
             /\ calls' = [calls EXCEPT !.run[c].tasks[t].resp = resp,
                                       !.ready = Append(@, <<c, t>>)]
    /\ UNCHANGED notCalls

\* the branches whose sleep at gate g runs out with this tick
Woken(g) == IF g.sleepLeft = 1 THEN <<g.sleeper>> ELSE <<>>

\* time.monotonic() advances by one tick for every gate
CallTick ==
    /\ calls.phase = "running"
    /\ \E i \in 1..2 :
         calls.gates[i].sinceLast < MinIntervalTicks \/ calls.gates[i].sleepLeft > 0
    /\ calls' = [calls EXCEPT
                    !.gates = [i \in 1..2 |->
                        [calls.gates[i] EXCEPT
                            !.sinceLast = IF @ < MinIntervalTicks THEN @ + 1 ELSE @,
                            !.sleepLeft = IF @ > 0 THEN @ - 1 ELSE @]],
                    !.ready = @ \o Woken(calls.gates[1]) \o Woken(calls.gates[2])]
    /\ UNCHANGED notCalls

CallsNext ==
    \/ CallStart
    \/ CallWakeSem
    \/ CallWakeLock
    \/ CallWakeSleep
    \/ CallFetchDone
    \/ CallGatherDone
    \/ CallIOComplete
    \/ CallTick

CallsSpec == CallsInit /\ [][CallsNext]_vars

\* the branches of call c
CallTasks(c) == 1..Len(calls.run[c].tasks)

\* the branches of call c that passed the visited check
CallDispatched(c) ==
    {t \in CallTasks(c) :
        calls.run[c].tasks[t].pc # "new" /\ calls.run[c].tasks[t].outcome # "Skipped"}

CallWithOutcome(c, o) == {t \in CallTasks(c) : calls.run[c].tasks[t].outcome = o}

\* the keys call c itself has marked: those of its dispatched branches and
\* those of the pages it fetched
OwnVisited(c) ==
    {normalize_title(calls.run[c].tasks[t].title) : t \in CallDispatched(c)}
        \cup UNION {PageKeys(PageContent(calls.world, calls.run[c].tasks[t].title)) :
                        t \in CallWithOutcome(c, "Fetched")}

\* the branches of call c holding a slot of the gate of call c
CallSlotHolders(c) ==
    {t \in CallTasks(c) :
        \/ calls.run[c].tasks[t].pc \in {"lockwait", "sleeping", "fetching"}
        \/ <<c, t>> \in calls.gates[calls.run[c].rate_limiter].semWoken}

(***************************************************************************)
(* C14. Each traverse() call has a TraversalResult and a gate of its own,  *)
(* shared by the branches of that call only: with two calls running        *)
(* concurrently on one service, a title marked visited in one call never   *)
(* suppresses its fetch in the other, the texts and errors of one never    *)
(* appear in the other's result, and the slots held by one never block     *)
(* admissions in the other.                                                *)
(***************************************************************************)
C14_CallsAreIsolated ==
    /\ calls.run[1].result # calls.run[2].result
    /\ calls.run[1].rate_limiter # calls.run[2].rate_limiter
    /\ \A c \in 1..2 :
         LET run == calls.run[c]
             res == calls.results[run.result]
             gate == calls.gates[run.rate_limiter]
         IN /\ res.visited = OwnVisited(c)
            /\ run.tasks[1].outcome # "Skipped"
            /\ Len(res.texts) = Cardinality(CallWithOutcome(c, "Fetched"))
            /\ Len(res.errors) = Cardinality(CallWithOutcome(c, "Failed"))
            /\ \A i \in 1..Len(res.errors) :
                 \E t \in CallWithOutcome(c, "Failed") :
                     run.tasks[t].title = res.errors[i].title
            /\ gate.value + Cardinality(CallSlotHolders(c)) = calls.max_concurrent
            /\ \A t \in CallTasks(c) :
                 run.tasks[t].pc = "semwait" /\ <<c, t>> \notin gate.semWoken
                   => Cardinality(CallSlotHolders(c)) = calls.max_concurrent
                        \/ \E u \in CallTasks(c) : <<c, u>> \in Range(gate.semQ) /\ u # t

\* with one slot per gate, both calls have the fetch of the same title in
\* flight at once, and the first call has recorded a text of its own
C14_Witness ==
    /\ calls.max_concurrent = 1
    /\ \E t \in CallTasks(1), u \in CallTasks(2) :
         /\ calls.run[1].tasks[t].pc = "fetching" /\ calls.run[1].tasks[t].resp = ""
         /\ calls.run[2].tasks[u].pc = "fetching" /\ calls.run[2].tasks[u].resp = ""
         /\ calls.run[1].tasks[t].title = calls.run[2].tasks[u].title
    /\ Len(calls.results[calls.run[1].result].texts) = 1
    /\ calls.results[calls.run[2].result].texts = <<>>

(***************************************************************************)
(* The HTTP endpoints of src/main.py: GET /word-frequency and              *)
(* POST /keywords. One request is validated, runs one traverse() on the    *)
(* event loop of the traversal model above, and is answered.               *)
(***************************************************************************)
\* largest valid depth a request is sent with
MaxApiDepth == 1

ApiWorlds == {"cycle", "alias"}

ApiArticles == {A, B}

ApiDepths == (0 - 1)..MaxApiDepth

ApiPercentiles == {0 - 1, 0, 50, 100, 101}

ApiIgnoreLists == {<<>>, << <<"A">> >>}

\* the requests sent: query parameters of GET /word-frequency, and JSON
\* bodies of POST /keywords (KeywordsRequest)
ApiRequests ==
    {[endpoint |-> "word-frequency", article |-> a, depth |-> d,
      ignore_list |-> None, percentile |-> None] : a \in ApiArticles, d \in ApiDepths}
    \cup
    {[endpoint |-> "keywords", article |-> a, depth |-> d,
      ignore_list |-> Some(il), percentile |-> Some(p)] :
        a \in ApiArticles, d \in ApiDepths, il \in ApiIgnoreLists, p \in ApiPercentiles}

\* a validation that lets every request through
valid_request_Any(request) == TRUE

\* Query(ge=0) on depth (main.py:79) and the Field constraints of
\* KeywordsRequest (schemas.py:26-32): depth >= 0, 0 <= percentile <= 100
valid_request(request) ==
    /\ request.depth >= 0
    /\ request.endpoint = "keywords" =>
         request.percentile[1] >= 0 /\ request.percentile[1] <= 100

\* an emptiness test that never finds the texts empty
not_texts_Never(texts) == FALSE

\* "if not result.texts", main.py:91 and 110
not_texts(texts) == texts = <<>>

\* HTTPException(status_code=404, detail=f"Article '{article}' not found")
ArticleNotFound(article) ==
    [status |-> 404, detail |-> <<"Article not found", article>>, body |-> <<>>]

\* the status code carried by the exception answer resp makes the client raise
status_code_of(resp) ==
    CASE resp = "http_error" -> Some(403)
      [] resp = "recoverable" -> Some(503)
      [] OTHER -> None

\* the exception handlers of main.py:44-66; any other exception is answered
\* by the server's default 500 response
exception_handler(cls, status_code) ==
    IF isinstance(cls, "WikipediaAPIError")
    THEN [handler |-> "wikipedia_api_error_handler",
          response |-> [status |-> IF status_code # None THEN status_code[1] ELSE 502,
                        detail |-> <<"Wikipedia API error">>, body |-> <<>>]]
    ELSE IF isinstance(cls, "WikipediaParseError")
    THEN [handler |-> "wikipedia_parse_error_handler",
          response |-> [status |-> 502, detail |-> <<"Wikipedia parse error">>,
                        body |-> <<>>]]
    ELSE [handler |-> "",
          response |-> [status |-> 500, detail |-> <<"Internal Server Error">>,
                        body |-> <<>>]]

\* an optional list argument, as "ignore_list or []" reads it
OrEmpty(optional) == IF optional = None THEN <<>> ELSE optional[1]

NoResponse == [status |-> 0, detail |-> <<>>, body |-> <<>>]

\* the server is up (services is FALSE when the lifespan has not built them)
\* and one request has arrived
ApiInit ==
    /\ \E request \in ApiRequests, services \in BOOLEAN :
         api = [phase |-> "received", request |-> request, services |-> services,
                traverse_calls |-> 0, calculate_calls |-> <<>>,
                handler |-> "", response |-> NoResponse]
    /\ world \in ApiWorlds
    /\ max_concurrent \in 1..MaxK
    /\ depth0 = 0
    /\ tasks = <<>> /\ ready = <<>> /\ rl = NewRateLimiter(max_concurrent)
    /\ result = [texts |-> <<>>, visited |-> {}, errors |-> <<>>]
    /\ fetched = <<>> /\ status = "idle"
    /\ retry = Idle /\ freq = Idle /\ calls = Idle /\ owners = Idle
    /\ parser = Idle /\ previous = Idle

\* the request is validated; a valid one enters its handler, which answers
\* 503 without services (lines 86-87, 105-106) and calls traverse otherwise
\* (lines 89, 108)
ApiReceive ==
    /\ api.phase = "received"
    /\ IF ~valid_request(api.request)
       THEN /\ api' = [api EXCEPT !.phase = "responded",
                                  !.response = [status |-> 422,
                                                detail |-> <<"validation error">>,
                                                body |-> <<>>]]
            /\ UNCHANGED traversal
       ELSE IF ~api.services
       THEN /\ api' = [api EXCEPT !.phase = "responded",
                                  !.response = [status |-> 503,
                                                detail |-> <<"Services not initialized">>,
                                                body |-> <<>>]]
            /\ UNCHANGED traversal
       ELSE /\ api' = [api EXCEPT !.phase = "traversing", !.traverse_calls = @ + 1]
            /\ depth0' = api.request.depth
            /\ tasks' = <<NewTask(api.request.article, api.request.depth, 0)>>
            /\ ready' = <<1>>
            /\ rl' = NewRateLimiter(max_concurrent)
            /\ result' = [texts |-> <<>>, visited |-> {}, errors |-> <<>>]
            /\ fetched' = <<>>
            /\ status' = "running"
            /\ UNCHANGED <<world, max_concurrent>>
    /\ UNCHANGED notApi

\* traverse has returned or raised: lines 91-94 and 110-119, or an
\* exception handler
ApiRespond ==
    /\ api.phase = "traversing"
    /\ \/ /\ status = "returned"
          /\ IF not_texts(result.texts)
             THEN api' = [api EXCEPT !.phase = "responded",
                                     !.response = ArticleNotFound(api.request.article)]
             ELSE api' = [api EXCEPT
                             !.phase = "responded",
                             !.calculate_calls =
                                 Append(@, [texts |-> result.texts,
                                            ignore_list |-> api.request.ignore_list,
                                            percentile |-> api.request.percentile]),
                             !.response =
                                 [status |-> 200, detail |-> <<>>,
                                  body |-> calculate(result.texts,
                                                     OrEmpty(api.request.ignore_list),
                                                     api.request.percentile)]]
       \/ /\ status = "raised"
          /\ \E t \in 1..Len(tasks) :
               /\ tasks[t].outcome = "Raised"
               /\ LET h == exception_handler(
                               fetch_page(world, tasks[t].title, tasks[t].resp).exc,
                               status_code_of(tasks[t].resp))
                  IN api' = [api EXCEPT !.phase = "responded", !.handler = h.handler,
                                        !.response = h.response]
    /\ UNCHANGED traversal
    /\ UNCHANGED notApi

ApiNext ==
    \/ ApiReceive
    \/ Start
    \/ WakeSem
    \/ WakeLock
    \/ WakeSleep
    \/ FetchDone
    \/ GatherDone
    \/ IOComplete
    \/ Tick
    \/ ApiRespond

ApiSpec == ApiInit /\ [][ApiNext]_vars

\* the handler of the request called traverse
TraverseCalled == api.traverse_calls > 0

\* the start article's own fetch was answered by resp
RootAnswered(resp) == TraverseCalled /\ tasks[1].pc = "done" /\ tasks[1].resp = resp

\* the answers that make the page source raise a fetch error: recoverable
\* (after the retries), fatal, or parse
FetchErrors == {"recoverable", "http_error", "bad_json", "bad_link"}

(***************************************************************************)
(* C23. When the start article's own fetch fails with a fetch error,       *)
(* traverse returns empty texts and one error, and the request is answered *)
(* 404 with the same response as for a missing article; no fetch failure   *)
(* of any node reaches the exception handlers of the endpoints.            *)
(***************************************************************************)
C23_RootFailureIsNotFound ==
    /\ \A resp \in FetchErrors :
         RootAnswered(resp) =>
            /\ status = "returned"
            /\ result.texts = <<>>
            /\ Len(result.errors) = 1
            /\ api.phase = "responded" =>
                 api.response = ArticleNotFound(api.request.article)
    /\ RootAnswered("missing") /\ api.phase = "responded" =>
         api.response = ArticleNotFound(api.request.article)
    /\ api.handler = ""

\* the start article's fetch failed with a fatal HTTP error and the request
\* was answered 404; no handler ran
C23_Witness ==
    /\ api.phase = "responded"
    /\ RootAnswered("http_error")
    /\ result.errors # <<>>
    /\ api.response.status = 404
    /\ api.handler = ""

(***************************************************************************)
(* C24. On both endpoints: when traverse returns empty texts the answer is *)
(* 404 and calculate is never called; when it returns texts, calculate is  *)
(* called exactly once, with those texts (and, for /keywords, the          *)
(* request's ignore_list and percentile), and its result is the answer.    *)
(***************************************************************************)
C24_CalculateOnceOnTexts ==
    /\ api.phase # "responded" => api.calculate_calls = <<>>
    /\ api.phase = "responded" /\ status = "returned" =>
         IF result.texts = <<>>
         THEN /\ api.response.status = 404
              /\ api.calculate_calls = <<>>
         ELSE /\ api.calculate_calls =
                    << [texts |-> result.texts,
                        ignore_list |-> IF api.request.endpoint = "keywords"
                                        THEN api.request.ignore_list ELSE None,
                        percentile |-> IF api.request.endpoint = "keywords"
                                       THEN api.request.percentile ELSE None] >>
              /\ api.response.status = 200
              /\ api.response.body =
                    calculate(result.texts, OrEmpty(api.request.ignore_list),
                              api.request.percentile)
    /\ api.phase = "responded" /\ status # "returned" => api.calculate_calls = <<>>

\* POST /keywords was answered from the two texts of a depth-1 traversal
C24_Witness ==
    /\ api.phase = "responded"
    /\ api.request.endpoint = "keywords"
    /\ Len(result.texts) = 2
    /\ Len(api.calculate_calls) = 1
    /\ api.response.status = 200
    /\ api.response.body # <<>>

C26_Percentile100Rejected ==
    api.request.endpoint = "keywords" /\ api.request.percentile = Some(100) =>
        /\ ~TraverseCalled
        /\ api.phase = "responded" => api.response.status = 422

(***************************************************************************)
(* Ownership of HTTP clients: WikipediaAPIClient (__init__, _get_client,   *)
(* close), WikiHTMLClient (the same contract; its tests) and               *)
(* WikiRecursiveFetchService (__init__, fetch_page, close). The caller     *)
(* builds an API client "api" and an HTML client "html", each with or      *)
(* without an injected httpx client, and a service from some of them; a    *)
(* service built from neither creates its own HTML client "svc_html".      *)
(* The operations then run one after another, in any order.                *)
(***************************************************************************)
\* how many operations one run performs
MaxOps == 4

ClientNames == {"api", "html", "svc_html"}

\* what the service constructor is given
ServiceArgs == {"none", "api", "html", "both"}

\* an httpx.AsyncClient: who created it, and how often and on whose close()
\* its aclose() was awaited
NewHttp(by) == [by |-> by, aclose_calls |-> 0, closed_via |-> {}]

\* an ownership flag that is always set
owns_client_Always(client) == TRUE

\* WikipediaAPIClient.__init__, line 51: self._owns_client = client is None
owns_client(client) == client = None

\* WikipediaAPIClient.__init__
NewClient(client) ==
    [made |-> TRUE, _client |-> client, _owns_client |-> owns_client(client),
     close_calls |-> 0]

\* WikiHTMLClient.__init__
NewHtmlClient(client) ==
    [made |-> TRUE, _client |-> client, _owns_client |-> client = None,
     close_calls |-> 0]

NoClient == [made |-> FALSE, _client |-> None, _owns_client |-> FALSE, close_calls |-> 0]

\* WikiRecursiveFetchService.__init__, lines 73-87
NewService(args) ==
    LET api_client == IF args \in {"api", "both"} THEN Some("api") ELSE None
        html_client == IF args \in {"html", "both"} THEN Some("html") ELSE None
    IN IF api_client = None /\ html_client = None
       THEN [_api_client |-> None, _html_client |-> Some("svc_html"),
             _owned_client |-> Some("svc_html")]
       ELSE [_api_client |-> api_client, _html_client |-> html_client,
             _owned_client |-> None]

\* WikipediaAPIClient._get_client, lines 53-67: the client is created on
\* first use
get_client(o, c) ==
    IF o.clients[c]._client = None
    THEN [o EXCEPT !.http = Append(@, NewHttp(c)),
                   !.clients[c]._client = Some(Len(o.http) + 1)]
    ELSE o

\* WikiHTMLClient._get_client
html_get_client(o, c) ==
    IF o.clients[c]._client = None
    THEN [o EXCEPT !.http = Append(@, NewHttp(c)),
                   !.clients[c]._client = Some(Len(o.http) + 1)]
    ELSE o

\* WikipediaAPIClient.close, lines 69-73, called by via
close(o, c, via) ==
    LET o1 == [o EXCEPT !.clients[c].close_calls = @ + 1]
    IN IF o.clients[c]._owns_client /\ o.clients[c]._client # None
       THEN [o1 EXCEPT !.http[o.clients[c]._client[1]].aclose_calls = @ + 1,
                       !.http[o.clients[c]._client[1]].closed_via = @ \cup {via},
                       !.clients[c]._client = None]
       ELSE o1

\* WikiHTMLClient.close
html_close(o, c, via) ==
    LET o1 == [o EXCEPT !.clients[c].close_calls = @ + 1]
    IN IF o.clients[c]._owns_client /\ o.clients[c]._client # None
       THEN [o1 EXCEPT !.http[o.clients[c]._client[1]].aclose_calls = @ + 1,
                       !.http[o.clients[c]._client[1]].closed_via = @ \cup {via},
                       !.clients[c]._client = None]
       ELSE o1

\* the objects after construction; the injected httpx clients come first
OwnersInit ==
    /\ \E api_injected \in BOOLEAN, html_injected \in BOOLEAN, args \in ServiceArgs :
         LET http == (IF api_injected THEN <<NewHttp("caller")>> ELSE <<>>)
                     \o (IF html_injected THEN <<NewHttp("caller")>> ELSE <<>>)
             service == NewService(args)
         IN owners =
              [phase |-> "live",
               http |-> http,
               clients |->
                   [c \in ClientNames |->
                       CASE c = "api" ->
                              NewClient(IF api_injected THEN Some(1) ELSE None)
                         [] c = "html" ->
                              NewHtmlClient(IF html_injected THEN Some(Len(http)) ELSE None)
                         [] OTHER ->
                              IF service._owned_client # None
                              THEN NewHtmlClient(None) ELSE NoClient],
               service |-> service,
               ops |-> 0,
               last |-> [op |-> "", target |-> ""]]
    /\ TraversalIdle
    /\ retry = Idle /\ freq = Idle /\ calls = Idle /\ api = Idle
    /\ parser = Idle /\ previous = Idle

\* the bookkeeping of one operation
Did(o, op, target) == [o EXCEPT !.ops = @ + 1, !.last = [op |-> op, target |-> target]]

CanOperate == owners.phase = "live" /\ owners.ops < MaxOps

\* the caller makes a request through its API client
GetClient ==
    /\ CanOperate
    /\ owners' = Did(get_client(owners, "api"), "get", "api")
    /\ UNCHANGED notOwners

\* the caller makes a request through its HTML client
HtmlGetClient ==
    /\ CanOperate
    /\ owners' = Did(html_get_client(owners, "html"), "get", "html")
    /\ UNCHANGED notOwners

\* the caller closes its API client
Close ==
    /\ CanOperate
    /\ owners' = Did(close(owners, "api", "caller"), "close", "api")
    /\ UNCHANGED notOwners

\* the caller closes its HTML client
HtmlClose ==
    /\ CanOperate
    /\ owners' = Did(html_close(owners, "html", "caller"), "close", "html")
    /\ UNCHANGED notOwners

\* fetch_page, lines 111-115: the HTML client if there is one, else the API
\* client
ServiceFetch ==
    /\ CanOperate
    /\ owners' =
         IF owners.service._html_client # None
         THEN Did(html_get_client(owners, owners.service._html_client[1]),
                  "fetch", "service")
         ELSE Did(get_client(owners, owners.service._api_client[1]), "fetch", "service")
    /\ UNCHANGED notOwners

\* WikiRecursiveFetchService.close, lines 89-92
ServiceClose ==
    /\ CanOperate
    /\ owners' =
         IF owners.service._owned_client # None
         THEN Did(html_close(owners, owners.service._owned_client[1], "service"),
                  "close", "service")
         ELSE Did(owners, "close", "service")
    /\ UNCHANGED notOwners

OwnersNext ==
    \/ GetClient
    \/ HtmlGetClient
    \/ Close
    \/ HtmlClose
    \/ ServiceFetch
    \/ ServiceClose

OwnersSpec == OwnersInit /\ [][OwnersNext]_vars

\* the httpx clients
HttpIds == 1..Len(owners.http)

\* the client objects the service was given by its constructor
PassedToService ==
    {c \in {"api", "html"} :
        owners.service._api_client = Some(c) \/ owners.service._html_client = Some(c)}

(***************************************************************************)
(* C28. Whatever the order of the operations: close() of a client never    *)
(* closes an injected httpx client; it closes the one the client created   *)
(* and leaves no reference to it; the service's close() closes only the    *)
(* client the service created, never one passed to its constructor.        *)
(***************************************************************************)
C28_OnlyOwnedClientsClosed ==
    /\ \A h \in HttpIds : owners.http[h].by = "caller" => owners.http[h].aclose_calls = 0
    /\ \A c \in ClientNames :
         /\ (owners.clients[c].made /\ ~owners.clients[c]._owns_client) =>
              /\ owners.clients[c]._client # None
              /\ owners.http[owners.clients[c]._client[1]].by = "caller"
         /\ (owners.last = [op |-> "close", target |-> c]
               /\ owners.clients[c]._owns_client) =>
              owners.clients[c]._client = None
         /\ \A h \in HttpIds :
              owners.http[h].by = c =>
                 IF owners.clients[c]._client = Some(h)
                 THEN owners.http[h].aclose_calls = 0
                 ELSE owners.http[h].aclose_calls = 1
    /\ \A h \in HttpIds :
         "service" \in owners.http[h].closed_via =>
            /\ owners.http[h].by = "svc_html"
            /\ owners.service._owned_client = Some("svc_html")
    /\ owners.service._owned_client # None => PassedToService = {}
    /\ (owners.last = [op |-> "close", target |-> "service"]
          /\ owners.service._owned_client # None) =>
         owners.clients["svc_html"]._client = None

\* the service closed the HTML client it had created and used, and the
\* caller's API client was closed without its injected httpx client being
\* closed
C28_Witness ==
    /\ owners.phase = "live"
    /\ \E h \in HttpIds :
         /\ owners.http[h].by = "svc_html"
         /\ owners.http[h].closed_via = {"service"}
    /\ owners.clients["svc_html"]._client = None
    /\ owners.clients["api"].close_calls = 1
    /\ ~owners.clients["api"]._owns_client
    /\ owners.http[owners.clients["api"]._client[1]].aclose_calls = 0

(***************************************************************************)
(* The page parsers: WikiRecursiveFetchService._fetch_page_api and         *)
(* _fetch_page_html (src/services/wikipedia.py) applied to one raw page.   *)
(* Strings are sequences of characters; a JSON member that may be absent   *)
(* is None or Some(value).                                                 *)
(***************************************************************************)
\* most entries of a raw link list, and most anchors of a content div
MaxLinks == 3

\* "/wiki/" followed by path
Wiki(path) == <<"/", "w", "i", "k", "i", "/">> \o path

\* the href attributes tried; None is an anchor without href:
\* /wiki/A, /wiki/a, /wiki/A#x, /wiki/#x, /wiki/File:A, /wiki/%41, /wiki/A_B, /w/A
HrefPool ==
    {None,
     Some(Wiki(A)), Some(Wiki(<<"a">>)), Some(Wiki(<<"A", "#", "x">>)),
     Some(Wiki(<<"#", "x">>)), Some(Wiki(<<"F", "i", "l", "e", ":", "A">>)),
     Some(Wiki(A_enc)), Some(Wiki(<<"A", "_", "B">>)), Some(<<"/", "w", "/", "A">>)}

\* the entries of parse.links tried: the articles UK, Uk and B, a category
\* page, a link to a page that does not exist, and an entry without "*"
ApiLinkPool ==
    {[ns |-> 0, exists |-> TRUE, star |-> Some(UK)],
     [ns |-> 0, exists |-> TRUE, star |-> Some(<<"U", "k">>)],
     [ns |-> 0, exists |-> TRUE, star |-> Some(B)],
     [ns |-> 14, exists |-> TRUE, star |-> Some(C)],
     [ns |-> 0, exists |-> FALSE, star |-> Some(D)],
     [ns |-> 0, exists |-> TRUE, star |-> None]}

\* the markup tried: a list of elements, each a tag, a class and the text
\* inside it
\*   nothing; <p>a  b</p>; <p>a[1]</p><table>t</table>;
\*   <div class="navbox">n</div><sup>[1]</sup>
HtmlPool ==
    {<<>>,
     <<[tag |-> "p", class |-> "", text |-> <<"a", " ", " ", "b">>]>>,
     <<[tag |-> "p", class |-> "", text |-> <<"a", "[", "1", "]">>],
       [tag |-> "table", class |-> "", text |-> <<"t">>]>>,
     <<[tag |-> "div", class |-> "navbox", text |-> <<"n">>],
       [tag |-> "sup", class |-> "", text |-> <<"[", "1", "]">>]>>}

\* str.startswith
startswith(s, prefix) == Len(s) >= Len(prefix) /\ SubSeq(s, 1, Len(prefix)) = prefix

\* character c occurs in s
Contains(s, c) == \E i \in 1..Len(s) : s[i] = c

\* s.split(c)[0]
RECURSIVE split_first(_, _)
split_first(s, c) ==
    IF s = <<>> \/ s[1] = c THEN <<>> ELSE <<s[1]>> \o split_first(Tail(s), c)

\* lines 158-159 and 287-288: the script, style, table and sup elements are
\* decomposed before the text is taken
decompose(html) ==
    SelectSeq(html, LAMBDA el : el.tag \notin {"script", "style", "table", "sup"})

\* _fetch_page_html, lines 160-171: so are the elements of these classes
decompose_classes(html) ==
    SelectSeq(html, LAMBDA el : el.class \notin {"navbox", "sidebar", "metadata",
                                                 "mw-editsection", "reference", "toc",
                                                 "catlinks"})

\* get_text(separator=" ", strip=True): the stripped, non-empty strings
\* joined with single spaces
RECURSIVE get_text(_)
get_text(html) ==
    IF html = <<>> THEN <<>>
    ELSE LET here == strip(html[1].text)
             rest == get_text(Tail(html))
         IN IF here = <<>> THEN rest
            ELSE IF rest = <<>> THEN here
            ELSE here \o <<" ">> \o rest

\* re.sub(r"\s+", " ", text)
RECURSIVE collapse_whitespace(_)
collapse_whitespace(s) ==
    IF s = <<>> THEN <<>>
    ELSE IF s[1] = " " /\ Len(s) >= 2 /\ s[2] = " " THEN collapse_whitespace(Tail(s))
    ELSE <<s[1]>> \o collapse_whitespace(Tail(s))

\* the length of the match of \[\d+\] at the start of s, 0 when there is none
RECURSIVE DigitRun(_)
DigitRun(s) == IF s # <<>> /\ s[1] \in {"0", "1", "2"} THEN 1 + DigitRun(Tail(s)) ELSE 0

CitationAt(s) ==
    IF s # <<>> /\ s[1] = "["
    THEN LET n == DigitRun(Tail(s))
         IN IF n >= 1 /\ Len(s) >= n + 2 /\ s[n + 2] = "]" THEN n + 2 ELSE 0
    ELSE 0

\* re.sub(r"\[edit\]", "", text)
RECURSIVE sub_edit(_)
sub_edit(s) ==
    IF s = <<>> THEN <<>>
    ELSE IF startswith(s, <<"[", "e", "d", "i", "t", "]">>)
    THEN sub_edit(SubSeq(s, 7, Len(s)))
    ELSE <<s[1]>> \o sub_edit(Tail(s))

\* re.sub(r"\[\d+\]", "", text)
RECURSIVE sub_citations(_)
sub_citations(s) ==
    IF s = <<>> THEN <<>>
    ELSE IF CitationAt(s) > 0 THEN sub_citations(SubSeq(s, CitationAt(s) + 1, Len(s)))
    ELSE <<s[1]>> \o sub_citations(Tail(s))

\* WikiRecursiveFetchService._clean_text
clean_text(text) == strip(sub_citations(sub_edit(collapse_whitespace(text))))

\* _extract_links_from_html, lines 219-221: normalized not in seen
keep_link(title, seen) == lower(title) \notin seen

\* _extract_links_from_html, lines 198-223: the loop over the anchors from
\* anchor i on, with the links and the seen set built so far
RECURSIVE extract_links_loop(_, _, _, _)
extract_links_loop(anchors, i, links, seen) ==
    IF i > Len(anchors) THEN links
    ELSE LET href == anchors[i]
             article_path ==
                 IF Contains(SubSeq(href[1], 7, Len(href[1])), "#")
                 THEN split_first(SubSeq(href[1], 7, Len(href[1])), "#")
                 ELSE SubSeq(href[1], 7, Len(href[1]))
             title == replace_underscores(unquote(article_path))
         IN IF href = None \/ ~startswith(href[1], Wiki(<<>>))
            THEN extract_links_loop(anchors, i + 1, links, seen)
            ELSE IF article_path = <<>> \/ Contains(unquote(article_path), ":")
            THEN extract_links_loop(anchors, i + 1, links, seen)
            ELSE IF keep_link(title, seen)
            THEN extract_links_loop(anchors, i + 1, Append(links, title),
                                    seen \cup {lower(title)})
            ELSE extract_links_loop(anchors, i + 1, links, seen)

\* WikiRecursiveFetchService._extract_links_from_html
extract_links_from_html(anchors) == extract_links_loop(anchors, 1, <<>>, {})

\* _fetch_page_api, lines 294-305: the list comprehension over parse.links;
\* link["*"] of an entry without "*" is a KeyError
api_links(raw_links) ==
    LET kept == SelectSeq(raw_links, LAMBDA link : link.ns = 0 /\ link.exists)
    IN IF \E i \in 1..Len(kept) : kept[i].star = None
       THEN [raised |-> TRUE, links |-> <<>>]
       ELSE [raised |-> FALSE, links |-> [i \in 1..Len(kept) |-> kept[i].star[1]]]

\* _fetch_page_api, lines 308-312, and _extract_redirects_from_html: the
\* redirect sources named by the response
redirects_of(raw_redirects) ==
    LET named == SelectSeq(raw_redirects, LAMBDA r : r # None)
    IN [i \in 1..Len(named) |-> named[i][1]]

NewPage(title, text, links, redirects) ==
    [kind |-> "page", exc |-> "",
     page |-> [title |-> title, text |-> text, links |-> links, redirects |-> redirects]]

Nothing == [kind |-> "none", exc |-> "", page |-> <<>>]

Raises(exc) == [kind |-> "raise", exc |-> exc, page |-> <<>>]

\* the "text" members of a parse object tried: absent, a string, an object
\* without "*", an object whose "*" is markup
TextMembers ==
    {None, Some([object |-> FALSE, star |-> None]), Some([object |-> TRUE, star |-> None])}
        \cup {Some([object |-> TRUE, star |-> Some(html)]) : html \in HtmlPool}

\* the lists of at most n entries of pool that name no entry twice (the
\* API lists every linked title once)
DistinctListsOver(pool, n) ==
    {s \in ListsOver(pool, n) : \A i, j \in 1..Len(s) : s[i] = s[j] => i = j}

\* the "parse" objects tried
ParseObjects ==
    [title : {None, Some(A)}, text : TextMembers,
     links : DistinctListsOver(ApiLinkPool, MaxLinks),
     redirects : {<<>>, <<Some(UK)>>, <<None>>}]

\* a "parse" object with no members
EmptyParse == [title |-> None, text |-> None, links |-> <<>>, redirects |-> <<>>]

\* the bodies the API client hands to _fetch_page_api: not JSON, a JSON
\* array, an object with "error", an object with neither "error" nor
\* "parse", and objects with a "parse" member
ApiBodies ==
    {[json |-> FALSE, object |-> FALSE, error |-> FALSE, parse |-> None],
     [json |-> TRUE, object |-> FALSE, error |-> FALSE, parse |-> None],
     [json |-> TRUE, object |-> TRUE, error |-> TRUE, parse |-> None],
     [json |-> TRUE, object |-> TRUE, error |-> FALSE, parse |-> None]}
        \cup {[json |-> TRUE, object |-> TRUE, error |-> FALSE, parse |-> Some(p)] :
                p \in ParseObjects}

\* what WikiHTMLClient.get does for _fetch_page_html: it raises, or returns
\* a document with or without h1#firstHeading, div#mw-content-text and
\* div.mw-parser-output, the anchors and elements inside the latter, and
\* the wgRedirectedFrom entry of the page's script config
HtmlResponses ==
    {[exc |-> "WikipediaAPIError", status_code |-> 404],
     [exc |-> "WikipediaAPIError", status_code |-> 403],
     [exc |-> "RecoverableAPIError", status_code |-> 503]}
        \cup [exc : {""}, h1 : {None, Some(A)}, mw_content_text : BOOLEAN,
              parser_output : BOOLEAN, anchors : ListsOver(HrefPool, MaxLinks),
              html : HtmlPool, redirected_from : {None, Some(UK)}]

\* lines 144-152: isinstance(div, Tag) for the result of find
found(present) == present

\* WikiRecursiveFetchService._fetch_page_api on the body of the response
fetch_page_api(title, body) ==
    IF ~body.json THEN Raises("WikipediaParseError")
    ELSE IF ~body.object THEN Raises("AttributeError")
    ELSE IF body.error THEN Nothing
    ELSE LET parse_data == IF body.parse = None THEN EmptyParse ELSE body.parse[1]
             text_member == parse_data.text
             html_content ==
                 IF text_member = None \/ text_member[1].star = None THEN <<>>
                 ELSE text_member[1].star[1]
             got == api_links(parse_data.links)
         IN IF text_member # None /\ ~text_member[1].object THEN Raises("AttributeError")
            ELSE IF got.raised THEN Raises("WikipediaParseError")
            ELSE NewPage(IF parse_data.title = None THEN title ELSE parse_data.title[1],
                         clean_text(get_text(decompose(html_content))),
                         got.links, redirects_of(parse_data.redirects))

\* WikiRecursiveFetchService._fetch_page_html on what the HTML client does
fetch_page_html(title, response) ==
    IF response.exc # ""
    THEN IF response.status_code = 404 THEN Nothing ELSE Raises(response.exc)
    ELSE IF ~found(response.mw_content_text) THEN Nothing
    ELSE IF ~found(response.parser_output) THEN Nothing
    ELSE NewPage(IF response.h1 = None THEN title ELSE response.h1[1],
                 clean_text(get_text(decompose_classes(decompose(response.html)))),
                 extract_links_from_html(response.anchors),
                 redirects_of(<<response.redirected_from>>))

\* the title fetch_page is called with
RequestedTitle == X

\* fetch_page(title) is about to parse a raw page of one of the two variants
ParseInit ==
    /\ \/ \E body \in ApiBodies :
            parser = [phase |-> "raw", variant |-> "api", raw |-> body,
                      out |-> Nothing]
       \/ \E response \in HtmlResponses :
            parser = [phase |-> "raw", variant |-> "html", raw |-> response,
                      out |-> Nothing]
    /\ TraversalIdle
    /\ retry = Idle /\ freq = Idle /\ calls = Idle /\ api = Idle /\ owners = Idle
    /\ previous = Idle

\* the variables a page parser leaves alone
notParser == <<traversal, retry, freq, calls, api, owners, previous>>

\* fetch_page, lines 113-114: the API variant parses its body
ParseApi ==
    /\ parser.phase = "raw" /\ parser.variant = "api"
    /\ parser' = [parser EXCEPT !.phase = "parsed",
                                !.out = fetch_page_api(RequestedTitle, parser.raw)]
    /\ UNCHANGED notParser

\* fetch_page, lines 111-112: the HTML variant parses its document
ParseHtml ==
    /\ parser.phase = "raw" /\ parser.variant = "html"
    /\ parser' = [parser EXCEPT !.phase = "parsed",
                                !.out = fetch_page_html(RequestedTitle, parser.raw)]
    /\ UNCHANGED notParser

ParseNext == ParseApi \/ ParseHtml

ParseSpec == ParseInit /\ [][ParseNext]_vars

\* a parser has returned a PageContent
Parsed == parser.phase = "parsed" /\ parser.out.kind = "page"

\* the article title an anchor points to, None when it points to none:
\* no href, not under /wiki/, nothing before the fragment, or a namespace
AnchorTitle(href) ==
    IF href = None \/ ~startswith(href[1], Wiki(<<>>)) THEN None
    ELSE LET path == split_first(SubSeq(href[1], 7, Len(href[1])), "#")
         IN IF path = <<>> \/ Contains(unquote(path), ":") THEN None
            ELSE Some(replace_underscores(unquote(path)))

\* the article titles a raw page links to, in document order: the entries
\* of parse.links in the article namespace that exist, or the anchors of
\* the content div that point to an article
LinkCandidates ==
    IF parser.variant = "api"
    THEN LET kept == SelectSeq(parser.raw.parse[1].links,
                               LAMBDA link : link.ns = 0 /\ link.exists)
         IN [i \in 1..Len(kept) |-> kept[i].star[1]]
    ELSE LET kept == SelectSeq([i \in 1..Len(parser.raw.anchors) |->
                                   AnchorTitle(parser.raw.anchors[i])],
                               LAMBDA title : title # None)
         IN [i \in 1..Len(kept) |-> kept[i][1]]

\* the entries of s that no earlier entry equals case-insensitively
RECURSIVE FirstSeen(_)
FirstSeen(s) ==
    IF s = <<>> THEN <<>>
    ELSE LET before == FirstSeen(SubSeq(s, 1, Len(s) - 1))
             last == s[Len(s)]
         IN IF \E i \in 1..(Len(s) - 1) : lower(s[i]) = lower(last)
            THEN before ELSE Append(before, last)

(***************************************************************************)
(* C36: for both source variants the links of every PageContent hold no    *)
(* two entries that are equal case-insensitively; each entry kept is the   *)
(* first-seen display form, and the entries are in order of first          *)
(* appearance in the raw page.                                             *)
(***************************************************************************)
C36_LinksDeduplicated ==
    Parsed /\ (parser.variant = "api" => parser.raw.parse # None)
        => LET links == parser.out.page.links
           IN /\ \A i, j \in 1..Len(links) : lower(links[i]) = lower(links[j]) => i = j
              /\ links = FirstSeen(LinkCandidates)

\* the raw page is structurally malformed: a body that is not JSON or has
\* no parse structure, or a document without its content container
Malformed ==
    IF parser.variant = "api"
    THEN \/ ~parser.raw.json
         \/ ~parser.raw.object
         \/ ~parser.raw.error /\ parser.raw.parse = None
    ELSE parser.raw.exc = "" /\ ~(parser.raw.mw_content_text /\ parser.raw.parser_output)

(***************************************************************************)
(* C37: parsing a structurally malformed raw page fails with a Parse       *)
(* error in both variants (a body that is not JSON or lacks the parse      *)
(* structure on the API path, a document lacking the content container on  *)
(* the HTML path): the outcome is never NotFound and never a page with     *)
(* empty text.                                                             *)
(***************************************************************************)
C37_MalformedIsParseError ==
    parser.phase = "parsed" /\ Malformed
        => parser.out.kind = "raise" /\ parser.out.exc = "WikipediaParseError"

(***************************************************************************)
(* traverse(title, depth) called again with the same arguments on the same *)
(* link graph once the first call is over: the second call runs under its  *)
(* own schedule, and what the first call returned is kept for comparison.  *)
(***************************************************************************)
\* the number of times each entry occurs in s
Multiset(s) == [x \in Range(s) |-> Cardinality({i \in 1..Len(s) : s[i] = x})]

\* the titles of the error entries
ErrorTitles(errors) == {errors[i].title : i \in 1..Len(errors)}

\* the branches whose fetch has been answered
Answered == {t \in TaskIds : tasks[t].resp # ""}

\* what the call that is over did: how it ended, the titles it fetched, its
\* texts and error titles, and the answer each fetched title got
Summary ==
    [phase |-> "over", status |-> status,
     fetched |-> Range(fetched),
     texts |-> Multiset(result.texts),
     errors |-> ErrorTitles(result.errors),
     outcomes |-> [title \in {tasks[t].title : t \in Answered} |->
                      tasks[CHOOSE t \in Answered : tasks[t].title = title].resp]]

\* traverse, lines 354-360, a second time: a new TraversalResult, a new
\* RateLimiter and the root branch, for the same title, depth and graph
Again ==
    /\ previous = Idle
    /\ status \in {"returned", "raised"}
    /\ previous' = Summary
    /\ tasks' = <<NewTask(StartTitle(world), depth0, 0)>>
    /\ ready' = <<1>>
    /\ rl' = NewRateLimiter(max_concurrent)
    /\ result' = [texts |-> <<>>, visited |-> {}, errors |-> <<>>]
    /\ fetched' = <<>>
    /\ status' = "running"
    /\ UNCHANGED <<world, depth0, max_concurrent>>
    /\ UNCHANGED <<retry, freq, calls, api, owners, parser>>

SchedNext == Next \/ Again

SchedSpec == Init /\ [][SchedNext]_vars

\* every title answered in both calls got the same answer in both
SameOutcomes ==
    \A t \in Answered :
        tasks[t].title \in DOMAIN previous.outcomes
            => tasks[t].resp = previous.outcomes[tasks[t].title]

(***************************************************************************)
(* C40: for a fixed link graph, start title, depth and fixed per-title     *)
(* fetch outcomes, the set of titles fetched, the multiset of texts and    *)
(* the set of error titles are the same for every completion order: two    *)
(* calls that return under different schedules return the same three.      *)
(***************************************************************************)
C40_ScheduleIndependent ==
    /\ previous # Idle /\ previous.status = "returned"
    /\ status = "returned"
    /\ SameOutcomes
    => /\ Range(fetched) = previous.fetched
       /\ Multiset(result.texts) = previous.texts
       /\ ErrorTitles(result.errors) = previous.errors

====
